---------------------------- MODULE MCAuthCheck ----------------------------
(***************************************************************************)
(* Mails for AuthCheck: forged, forwarded, signed by others, and all that  *)
(* lies between.                                                           *)
(***************************************************************************)
EXTENDS AuthCheck

Own == <<"example", "com">>
Host == <<"mail", "example", "com">>
Other == <<"else", "org">>

MCDomains == {Own, Host, Other}

Sig(d, ok) == [domain |-> d, ok |-> ok]
Seal(i, cv) == [i |-> i, cv |-> cv]
Aar(i, spf, dkim, dmarc) == [i |-> i, spf |-> spf, dkim |-> dkim, dmarc |-> dmarc]
Record(found, spf, dkim) == [found |-> found, spfStrict |-> spf, dkimStrict |-> dkim]

MCMails ==
    [envelope : {<<>>, Host, Other}, header : {<<>>, Own}, ip : {TRUE},
     spf : {"Pass", "TempError", "Fail"},
     signatures : {{}, {Sig(Host, TRUE)}, {Sig(Own, FALSE)}, {Sig(Other, TRUE)},
                   {Sig(Host, TRUE), Sig(Other, FALSE)}},
     seals : {{}, {Seal(1, "none")}, {Seal(1, "none"), Seal(2, "pass")},
              {Seal(2, "none")}, {Seal(1, "none"), Seal(2, "fail")}},
     aars : {{}, {Aar(1, "pass", "pass", "pass"), Aar(2, "fail", "fail", "fail")},
             {Aar(1, "fail", "pass", "fail")}, {Aar(1, "none", "none", "pass")},
             {Aar(2, "pass", "pass", "pass")}},
     record : {Record(FALSE, FALSE, FALSE), Record(TRUE, FALSE, FALSE),
               Record(TRUE, TRUE, FALSE), Record(TRUE, FALSE, TRUE)}]
    \cup
    [envelope : {Host}, header : {Own}, ip : {FALSE}, spf : {"Pass"},
     signatures : {{}, {Sig(Host, TRUE)}}, seals : {{}, {Seal(1, "none")}},
     aars : {{}, {Aar(1, "fail", "pass", "pass")}}, record : {Record(TRUE, FALSE, FALSE)}]
=============================================================================
