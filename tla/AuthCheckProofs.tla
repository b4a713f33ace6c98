--------------------------- MODULE AuthCheckProofs ---------------------------
(***************************************************************************)
(* Proofs about AuthCheck, for any set of mails.                           *)
(***************************************************************************)
EXTENDS AuthCheck, TLAPS

\* The verdict is that of the modes in force and the mail at hand.
VerdictInv ==
    /\ mail \in Mails
    /\ modes \in [Checks -> AuthModes]
    /\ verdict = VerifyAuth(modes, mail)

LEMMA VerdictIsCurrent == Spec => []VerdictInv
<1>1. Init => VerdictInv
    BY DEF Init, VerdictInv, AuthModes
<1>2. VerdictInv /\ [Next]_vars => VerdictInv'
  <2> SUFFICES ASSUME VerdictInv, [Next]_vars PROVE VerdictInv'
    OBVIOUS
  <2>1. ASSUME NEW check \in Checks, NEW mode \in AuthModes, SetMode(check, mode)
        PROVE  VerdictInv'
      BY <2>1 DEF SetMode, VerdictInv
  <2>2. CASE UNCHANGED vars
      BY <2>2 DEF vars, VerdictInv
  <2> QED
      BY <2>1, <2>2 DEF Next
<1> QED
    BY <1>1, <1>2, PTL DEF Spec

\* A check that rejects and one that only logs look at the mail alike.
LEMMA WatchingSeesTheSame ==
    ASSUME modes \in [Checks -> AuthModes], NEW m
    PROVE  /\ SPFResult(Watching, m) = SPFResult(modes, m)
           /\ DKIMResult(Watching, m) = DKIMResult(modes, m)
           /\ DMARCResult(Watching, m) = DMARCResult(modes, m)
           /\ \A check \in Checks : Watching[check] # "enforce"
<1>1. ASSUME NEW check \in Checks
      PROVE  /\ Enabled(Watching[check]) <=> Enabled(modes[check])
             /\ Watching[check] # "enforce"
    BY <1>1 DEF Watching, Enabled, AuthModes
<1>2. /\ Enabled(Watching["SPF"]) <=> Enabled(modes["SPF"])
      /\ Enabled(Watching["DKIM"]) <=> Enabled(modes["DKIM"])
      /\ Enabled(Watching["DMARC"]) <=> Enabled(modes["DMARC"])
    BY <1>1 DEF Checks
<1>3. SPFResult(Watching, m) = SPFResult(modes, m)
    BY <1>2 DEF SPFResult
<1>4. DKIMResult(Watching, m) = DKIMResult(modes, m)
    BY <1>2 DEF DKIMResult
<1>5. Aligned(Watching, m) <=> Aligned(modes, m)
    BY <1>2, <1>3 DEF Aligned
<1>6. DMARCResult(Watching, m) = DMARCResult(modes, m)
    BY <1>2, <1>5 DEF DMARCResult
<1> QED
    BY <1>1, <1>3, <1>4, <1>6

\* Logging predicts what enforcing will do (VerifyAuth), for every mail.
THEOREM LoggingPredicts == Spec => []LogPredictsEnforce
<1>1. VerdictInv => LogPredictsEnforce
  <2> SUFFICES ASSUME VerdictInv PROVE LogPredictsEnforce
    OBVIOUS
  <2>1. /\ SPFResult(Watching, mail) = SPFResult(modes, mail)
        /\ DKIMResult(Watching, mail) = DKIMResult(modes, mail)
        /\ DMARCResult(Watching, mail) = DMARCResult(modes, mail)
        /\ \A check \in Checks : Watching[check] # "enforce"
    BY WatchingSeesTheSame DEF VerdictInv
  <2>2. /\ Watching["SPF"] # "enforce"
        /\ Watching["DKIM"] # "enforce"
        /\ Watching["DMARC"] # "enforce"
    BY <2>1 DEF Checks
  <2> QED
    BY <2>1, <2>2 DEF VerdictInv, LogPredictsEnforce, VerifyAuth
<1> QED
    BY <1>1, VerdictIsCurrent, PTL

\* Who rejects, without the rest of the verdict.
LEMMA Rejection ==
    ASSUME NEW cfg, NEW m
    PROVE  VerifyAuth(cfg, m).rejectedBy = "nobody" <=>
             /\ ~(cfg["SPF"] = "enforce" /\ SPFResult(cfg, m) = "fail")
             /\ ~(cfg["DKIM"] = "enforce" /\ DKIMResult(cfg, m) = "fail")
             /\ ~(cfg["DMARC"] = "enforce" /\ DMARCResult(cfg, m) = "fail")
    BY DEF VerifyAuth

\* A mail has eight fields, so that replacing one leaves the others alone.
LEMMA MailFields ==
    ASSUME NEW m \in Mails
    PROVE  DOMAIN m = {"envelope", "header", "ip", "spf", "signatures", "seals", "aars", "record"}
<1>1. m = [envelope |-> m.envelope, header |-> m.header, ip |-> m.ip, spf |-> m.spf,
           signatures |-> m.signatures, seals |-> m.seals, aars |-> m.aars,
           record |-> m.record]
    BY MailsAssumption
<1> QED
    BY ONLY <1>1

\* The chain depends on the ARC headers, the header's domain on the addresses.
LEMMA SameHeaders ==
    ASSUME NEW m, NEW n,
           n.seals = m.seals, n.aars = m.aars,
           n.envelope = m.envelope, n.header = m.header
    PROVE  /\ checkARCChain(n) = checkARCChain(m)
           /\ HdrFromDomain(n) = HdrFromDomain(m)
    BY DEF checkARCChain, HdrFromDomain

\* What ARC preserved decides about SPF and DMARC: neither the forwarder's address nor
\* the record of the sender's domain changes the verdict, and signatures it broke only
\* matter when DKIM is enforced (checkARCChain, VerifyAuth).
THEOREM ForwardingIsHarmless == Spec => []ForwardingKeepsVerdict
<1>1. VerdictInv => ForwardingKeepsVerdict
  <2> SUFFICES ASSUME VerdictInv,
                      checkARCChain(mail).passed,
                      checkARCChain(mail).spf # "none", checkARCChain(mail).dmarc # "none",
                      NEW spf \in SPFResults, NEW record \in Records
               PROVE  LET forwarded == [mail EXCEPT !.spf = spf, !.record = record]
                          altered == [forwarded EXCEPT !.signatures = Broken(mail.signatures)]
                      IN  /\ VerifyAuth(modes, forwarded) = verdict
                          /\ modes["DKIM"] # "enforce" =>
                               VerifyAuth(modes, altered).rejectedBy = verdict.rejectedBy
    BY DEF ForwardingKeepsVerdict
  <2> DEFINE n == [mail EXCEPT !.spf = spf, !.record = record]
             b == [n EXCEPT !.signatures = Broken(mail.signatures)]
  <2>1. /\ n.envelope = mail.envelope /\ n.header = mail.header /\ n.ip = mail.ip
        /\ n.signatures = mail.signatures /\ n.seals = mail.seals /\ n.aars = mail.aars
    BY MailFields DEF VerdictInv
  <2>2. /\ b.envelope = mail.envelope /\ b.header = mail.header /\ b.ip = mail.ip
        /\ b.seals = mail.seals /\ b.aars = mail.aars
    BY MailFields DEF VerdictInv
  <2> HIDE DEF n, b
  <2>3. ASSUME NEW x,
               x.envelope = mail.envelope, x.header = mail.header, x.ip = mail.ip,
               x.seals = mail.seals, x.aars = mail.aars
        PROVE  /\ checkARCChain(x) = checkARCChain(mail)
               /\ SPFResult(modes, x) = SPFResult(modes, mail)
               /\ DMARCResult(modes, x) = DMARCResult(modes, mail)
    <3>1. checkARCChain(x) = checkARCChain(mail) /\ HdrFromDomain(x) = HdrFromDomain(mail)
      BY <2>3, SameHeaders
    <3>2. SPFResult(modes, x) = SPFResult(modes, mail)
      BY <2>3, <3>1 DEF SPFResult
    <3>3. DMARCResult(modes, x) = DMARCResult(modes, mail)
      BY <3>1 DEF DMARCResult
    <3> QED
      BY <3>1, <3>2, <3>3
  <2>4. VerifyAuth(modes, n) = VerifyAuth(modes, mail)
    <3>1. DKIMResult(modes, n) = DKIMResult(modes, mail)
      BY <2>1 DEF DKIMResult, Verified
    <3>2. /\ checkARCChain(n) = checkARCChain(mail)
          /\ SPFResult(modes, n) = SPFResult(modes, mail)
          /\ DMARCResult(modes, n) = DMARCResult(modes, mail)
      BY <2>1, <2>3
    <3> QED
      BY <3>1, <3>2 DEF VerifyAuth
  <2>5. ASSUME modes["DKIM"] # "enforce"
        PROVE  VerifyAuth(modes, b).rejectedBy = VerifyAuth(modes, mail).rejectedBy
    <3>1. /\ checkARCChain(b) = checkARCChain(mail)
          /\ SPFResult(modes, b) = SPFResult(modes, mail)
          /\ DMARCResult(modes, b) = DMARCResult(modes, mail)
      BY <2>2, <2>3
    <3> QED
      BY <2>5, <3>1 DEF VerifyAuth
  <2> QED
    BY <2>4, <2>5 DEF VerdictInv, n, b
<1> QED
    BY <1>1, VerdictIsCurrent, PTL

\* An address that SPF lists rejects nothing that was accepted without it.
LEMMA ListedAddressNeverHurts ==
    ASSUME NEW cfg, NEW m \in Mails, VerifyAuth(cfg, m).rejectedBy = "nobody"
    PROVE  VerifyAuth(cfg, [m EXCEPT !.spf = "Pass"]).rejectedBy = "nobody"
<1> DEFINE n == [m EXCEPT !.spf = "Pass"]
<1>1. /\ n.envelope = m.envelope /\ n.header = m.header /\ n.spf = "Pass"
      /\ n.signatures = m.signatures /\ n.seals = m.seals /\ n.aars = m.aars
      /\ n.ip = m.ip /\ n.record = m.record
    BY MailFields
<1> HIDE DEF n
<1>2. checkARCChain(n) = checkARCChain(m) /\ HdrFromDomain(n) = HdrFromDomain(m)
    BY <1>1, SameHeaders
<1>3. /\ SPFResult(cfg, n) = "fail" => SPFResult(cfg, m) = "fail"
      /\ SPFResult(cfg, m) = "pass" => SPFResult(cfg, n) = "pass"
    BY <1>1, <1>2 DEF SPFResult
<1>4. Verified(n) = Verified(m)
    BY <1>1 DEF Verified
<1>5. DKIMResult(cfg, n) = DKIMResult(cfg, m)
    BY <1>1, <1>4 DEF DKIMResult
<1>6. Aligned(cfg, m) => Aligned(cfg, n)
    BY <1>1, <1>2, <1>3, <1>4 DEF Aligned
<1>7. DMARCResult(cfg, n) = "fail" => DMARCResult(cfg, m) = "fail"
    BY <1>1, <1>2, <1>6 DEF DMARCResult
<1>8. VerifyAuth(cfg, n).rejectedBy = "nobody"
    BY <1>3, <1>5, <1>7, Rejection
<1> QED
    BY <1>8 DEF n

\* Nor does one more signature that verifies, whatever its domain.
LEMMA SignatureNeverHurts ==
    ASSUME NEW cfg, NEW m \in Mails, VerifyAuth(cfg, m).rejectedBy = "nobody",
           NEW d \in Domains
    PROVE  VerifyAuth(cfg, [m EXCEPT !.signatures = @ \cup {[domain |-> d, ok |-> TRUE]}])
             .rejectedBy = "nobody"
<1> DEFINE sig == [domain |-> d, ok |-> TRUE]
           n == [m EXCEPT !.signatures = m.signatures \cup {sig}]
<1>1. /\ n.envelope = m.envelope /\ n.header = m.header /\ n.spf = m.spf
      /\ n.signatures = m.signatures \cup {sig} /\ n.seals = m.seals /\ n.aars = m.aars
      /\ n.ip = m.ip /\ n.record = m.record
    BY MailFields
<1>0. sig.ok = TRUE
    OBVIOUS
<1>a. n = [m EXCEPT !.signatures = @ \cup {[domain |-> d, ok |-> TRUE]}]
    OBVIOUS
<1> HIDE DEF n, sig
<1>2. checkARCChain(n) = checkARCChain(m) /\ HdrFromDomain(n) = HdrFromDomain(m)
    BY <1>1, SameHeaders
<1>3. SPFResult(cfg, n) = SPFResult(cfg, m)
    BY <1>1, <1>2 DEF SPFResult
<1>4. Verified(m) \subseteq Verified(n) /\ sig \in Verified(n)
    BY <1>0, <1>1 DEF Verified
<1>5. DKIMResult(cfg, n) # "fail"
    BY <1>4 DEF DKIMResult
<1>6. Aligned(cfg, m) => Aligned(cfg, n)
    BY <1>1, <1>2, <1>3, <1>4 DEF Aligned
<1>7. DMARCResult(cfg, n) = "fail" => DMARCResult(cfg, m) = "fail"
    BY <1>1, <1>2, <1>6 DEF DMARCResult
<1>8. VerifyAuth(cfg, n).rejectedBy = "nobody"
    BY <1>3, <1>5, <1>7, Rejection
<1> QED
    BY <1>8, <1>a

\* Better credentials never turn an accepted mail into a rejected one (VerifyAuth).
THEOREM CredentialsHelp == Spec => []CredentialsNeverHurt
<1>1. VerdictInv => CredentialsNeverHurt
    BY ListedAddressNeverHurts, SignatureNeverHurts DEF VerdictInv, CredentialsNeverHurt
<1> QED
    BY <1>1, VerdictIsCurrent, PTL
=============================================================================
