\* Every mail of MCMails under every choice of modes: the DKIM result that ARC preserved.
SPECIFICATION Spec
CONSTANTS
    Domains <- MCDomains
    Mails <- MCMails
INVARIANTS
    OriginalDKIMSurvives
