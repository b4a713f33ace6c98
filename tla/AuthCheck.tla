------------------------------ MODULE AuthCheck ------------------------------
(***************************************************************************)
(* The checks of the sender (internal/smtp/auth.go): ARC, SPF, DKIM and    *)
(* DMARC, in this order, each "off", "log" or "enforce", and the settings  *)
(* page that changes their modes while the same mail is sent again.        *)
(*                                                                         *)
(* A mail is what the checks look at: the domains of envelope and header,  *)
(* whether the client's IP address is known and what the SPF library says  *)
(* of it, the signatures and whether they verify, the ARC headers, and the *)
(* DMARC record of the header's domain. A domain is the sequence of its labels, <<>> if there is none.  *)
(* DNS and cryptography are the libraries'.                                *)
(***************************************************************************)
EXTENDS Naturals, Sequences

CONSTANTS
    Domains,  \* domains that sign
    Mails     \* the mails that are looked at

Checks == {"SPF", "DKIM", "DMARC"}
AuthModes == {"off", "log", "enforce"}
Results == {"pass", "fail", "none"}

\* Results of spf.CheckHostWithSender.
SPFResults == {"Pass", "Neutral", "None", "TempError", "PermError", "Fail", "SoftFail"}

\* DMARC records: whether one could be had, and how each identifier is compared.
Records == [found : BOOLEAN, spfStrict : BOOLEAN, dkimStrict : BOOLEAN]

Seals == [i : Nat, cv : {"none", "pass", "fail", "other"}]
AuthenticationResults == [i : Nat, spf : Results, dkim : Results, dmarc : Results]
Signatures == [domain : Domains, ok : BOOLEAN]

ASSUME MailsAssumption ==
    \A m \in Mails :
        /\ m = [envelope |-> m.envelope, header |-> m.header, ip |-> m.ip, spf |-> m.spf,
                signatures |-> m.signatures, seals |-> m.seals, aars |-> m.aars,
                record |-> m.record]
        /\ m.ip \in BOOLEAN /\ m.spf \in SPFResults /\ m.record \in Records
        /\ m.signatures \subseteq Signatures
        /\ m.seals \subseteq Seals /\ m.aars \subseteq AuthenticationResults

VARIABLES
    mail,      \* the mail that is sent
    modes,     \* the AuthConfig of the SMTP server
    verdict    \* what VerifyAuth returned for it

vars == <<mail, modes, verdict>>

Enabled(mode) == mode # "off"

NoChain == [passed |-> FALSE, spf |-> "none", dkim |-> "none", dmarc |-> "none"]

\* checkARCChain. The results come from the ARC-Authentication-Results with i=1,
\* of which there is at most one. VerifyAuth makes no use of the one for DKIM.
checkARCChain(m) ==
    LET valid(seal) == seal.i > 0 /\ (seal.cv = "pass" \/ (seal.i = 1 /\ seal.cv = "none"))
        original == {aar \in m.aars : aar.i = 1}
    IN  IF (\E seal \in m.seals : seal.cv = "fail") \/ ~ \E seal \in m.seals : valid(seal)
        THEN NoChain
        ELSE IF original = {} THEN [NoChain EXCEPT !.passed = TRUE]
        ELSE LET aar == CHOOSE x \in original : TRUE
             IN  [passed |-> TRUE, spf |-> aar.spf, dkim |-> aar.dkim, dmarc |-> aar.dmarc]

orgDomain(d) == IF Len(d) <= 2 THEN d ELSE SubSeq(d, Len(d) - 1, Len(d))

domainAligns(d, fromDomain, relaxed) ==
    d = fromDomain \/ (relaxed /\ orgDomain(d) = orgDomain(fromDomain))

\* The header's domain, or the envelope's when the header has none.
HdrFromDomain(m) == IF m.header = <<>> THEN m.envelope ELSE m.header

\* Faulty variant: the client that hands over is checked, forwarder or not.
SPFResult_Live(cfg, m) ==
    IF ~Enabled(cfg["SPF"]) \/ ~m.ip \/ m.envelope = <<>> THEN "none"
    ELSE IF m.spf = "Pass" THEN "pass"
    ELSE IF m.spf \in {"Neutral", "None", "TempError", "PermError"} THEN "none"
    ELSE "fail"

SPFResult(cfg, m) ==
    LET arc == checkARCChain(m)
    IN  IF ~Enabled(cfg["SPF"]) \/ ~m.ip \/ m.envelope = <<>> THEN "none"
        ELSE IF arc.passed /\ arc.spf # "none" THEN arc.spf
        ELSE IF m.spf = "Pass" THEN "pass"
        ELSE IF m.spf \in {"Neutral", "None", "TempError", "PermError"} THEN "none"
        ELSE "fail"

Verified(m) == {sig \in m.signatures : sig.ok}

DKIMResult(cfg, m) ==
    IF ~Enabled(cfg["DKIM"]) \/ m.signatures = {} THEN "none"
    ELSE IF Verified(m) # {} THEN "pass" ELSE "fail"

\* Faulty variant: every signature must align, not one.
Aligned_AllSignatures(cfg, m) ==
    \/ /\ SPFResult(cfg, m) = "pass"
       /\ domainAligns(m.envelope, HdrFromDomain(m), ~m.record.spfStrict)
    \/ /\ Enabled(cfg["DKIM"])
       /\ Verified(m) # {}
       /\ \A sig \in Verified(m) :
             domainAligns(sig.domain, HdrFromDomain(m), ~m.record.dkimStrict)

\* SPF or DKIM passes for a domain that aligns with the header's.
Aligned(cfg, m) ==
    \/ /\ SPFResult(cfg, m) = "pass"
       /\ domainAligns(m.envelope, HdrFromDomain(m), ~m.record.spfStrict)
    \/ /\ Enabled(cfg["DKIM"])
       /\ \E sig \in Verified(m) :
             domainAligns(sig.domain, HdrFromDomain(m), ~m.record.dkimStrict)

DMARCResult(cfg, m) ==
    LET arc == checkARCChain(m)
    IN  IF ~Enabled(cfg["DMARC"]) \/ HdrFromDomain(m) = <<>> THEN "none"
        ELSE IF arc.passed /\ arc.dmarc # "none" THEN arc.dmarc
        ELSE IF ~m.record.found THEN "none"
        ELSE IF Aligned(cfg, m) THEN "pass" ELSE "fail"

\* Faulty variant: only the last check can reject.
VerifyAuth_LastOnly(cfg, m) ==
    LET d == DMARCResult(cfg, m)
    IN  [SPF |-> SPFResult(cfg, m), DKIM |-> DKIMResult(cfg, m), DMARC |-> d,
         ARC |-> IF checkARCChain(m).passed THEN "pass" ELSE "none",
         rejectedBy |-> IF cfg["DMARC"] = "enforce" /\ d = "fail" THEN "DMARC" ELSE "nobody"]

\* func VerifyAuth. A check that rejects ends it; the later ones stay "none".
VerifyAuth(cfg, m) ==
    LET s == SPFResult(cfg, m)
        k == DKIMResult(cfg, m)
        d == DMARCResult(cfg, m)
        none == [SPF |-> s, DKIM |-> "none", DMARC |-> "none", rejectedBy |-> "nobody",
                 ARC |-> IF checkARCChain(m).passed THEN "pass" ELSE "none"]
        enforced(check, result) == cfg[check] = "enforce" /\ result = "fail"
    IN  IF enforced("SPF", s) THEN [none EXCEPT !.rejectedBy = "SPF"]
        ELSE IF enforced("DKIM", k) THEN [none EXCEPT !.DKIM = k, !.rejectedBy = "DKIM"]
        ELSE [none EXCEPT !.DKIM = k, !.DMARC = d,
                          !.rejectedBy = IF enforced("DMARC", d) THEN "DMARC" ELSE "nobody"]

Init ==
    /\ mail \in Mails
    /\ modes = [check \in Checks |-> "log"]
    /\ verdict = VerifyAuth(modes, mail)

\* SetAuthConfig, and the same mail again.
SetMode(check, mode) ==
    /\ modes[check] # mode
    /\ modes' = [modes EXCEPT ![check] = mode]
    /\ verdict' = VerifyAuth(modes', mail)
    /\ UNCHANGED mail

Next == \E check \in Checks : \E mode \in AuthModes : SetMode(check, mode)

Spec == Init /\ [][Next]_vars
-----------------------------------------------------------------------------
\* The modes with "log" for "enforce".
Watching == [check \in Checks |-> IF modes[check] = "enforce" THEN "log" ELSE modes[check]]

\* "log until you've watched real mail pass, then enforce": a mail is rejected by
\* the first enforced check that fails when the same checks only log, and by none
\* if there is none; enforcing a check changes no result.
LogPredictsEnforce ==
    LET logged == VerifyAuth(Watching, mail)
        fails(check) == modes[check] = "enforce" /\ logged[check] = "fail"
    IN  /\ logged.rejectedBy = "nobody"
        /\ verdict.rejectedBy =
             IF fails("SPF") THEN "SPF" ELSE IF fails("DKIM") THEN "DKIM"
             ELSE IF fails("DMARC") THEN "DMARC" ELSE "nobody"
        /\ verdict.rejectedBy = "nobody" => verdict = logged

\* The same signatures after a forwarder changed the text.
Broken(signatures) == {[sig EXCEPT !.ok = FALSE] : sig \in signatures}

\* What ARC vouches for SPF and DMARC, a forwarder cannot spoil: neither its address
\* nor the sender's record changes the verdict, and signatures that it breaks do not
\* change who rejects the mail, unless DKIM is enforced.
ForwardingKeepsVerdict ==
    LET arc == checkARCChain(mail)
    IN  arc.passed /\ arc.spf # "none" /\ arc.dmarc # "none" =>
          \A spf \in SPFResults, record \in Records :
              LET forwarded == [mail EXCEPT !.spf = spf, !.record = record]
                  altered == [forwarded EXCEPT !.signatures = Broken(mail.signatures)]
              IN  /\ VerifyAuth(modes, forwarded) = verdict
                  /\ modes["DKIM"] # "enforce" =>
                       VerifyAuth(modes, altered).rejectedBy = verdict.rejectedBy

\* "ARC is verified so the original SPF/DKIM results survive forwarding": a mail whose
\* DKIM signature an intact chain reports as passed is not reported as failing DKIM.
OriginalDKIMSurvives ==
    LET arc == checkARCChain(mail)
    IN  arc.passed /\ arc.dkim = "pass" => verdict.DKIM # "fail"

\* Better credentials never turn an accepted mail into a rejected one: an address
\* that SPF lists, or one more signature that verifies, whatever its domain.
CredentialsNeverHurt ==
    verdict.rejectedBy = "nobody" =>
        /\ VerifyAuth(modes, [mail EXCEPT !.spf = "Pass"]).rejectedBy = "nobody"
        /\ \A d \in Domains :
             VerifyAuth(modes, [mail EXCEPT !.signatures = @ \cup {[domain |-> d, ok |-> TRUE]}])
               .rejectedBy = "nobody"
=============================================================================
