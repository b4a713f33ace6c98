\* Every mail of MCMails under every choice of modes.
SPECIFICATION Spec
CONSTANTS
    Domains <- MCDomains
    Mails <- MCMails
INVARIANTS
    
    ForwardingKeepsVerdict
    
