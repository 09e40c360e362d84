------------------------------- MODULE MCOffice -------------------------------
(* Small instances of the parts of Office.  As in MCDesk the initial state    *)
(* picks the part that moves, and the others stay as they are.                *)
EXTENDS MCQuote, Office

VARIABLE part

quotation  == vars
references == <<family, rStored, past, clock, up, rEdit, quoted, rBudget>>
learning   == <<events, learned, drain, crossed, crashes>>
provider   == <<environ, envfile, pRow, save, faults>>
proposal   == <<proposals, totals, lapsed, sign, routed, acts, deaths>>
matching   == <<catalog, answers, schedule, hardware, cache, pass, passes, shaken>>

\* A seed of two entries; one crash and one outage.
Shipped == [entry \in {"bands", "accessories"} |-> 1]
Outaged == [crash |-> 1, outage |-> 1]

\* An environment that gives nothing, or the base URL; one sign-in, one edit by
\* hand, one lost key and one failure of the file.
Given    == {"CLAUDE_CODE_OAUTH_TOKEN", "ANTHROPIC_BASE_URL"}
NoEnv    == [v \in Given |-> 0]
Started  == {NoEnv, [NoEnv EXCEPT !["ANTHROPIC_BASE_URL"] = 1]}
Mishap   == [kind \in {"failure", "sign-in", "by hand", "key"} |-> 1]

Parts == {"quote", "references", "learning", "provider", "proposal", "matches"}

OfficeInit ==
  /\ part \in Parts
  /\ Init /\ (part # "quote" => band = 1 /\ ship = oh)
  /\ R!Init /\ (part # "references" => family = "tax")
  /\ L!Init
  /\ P!Init /\ (part # "provider" => pRow = P!Unset /\ environ = NoEnv)
  /\ H!Init /\ (part # "proposal" => lapsed = FALSE)
  /\ M!Init

OfficeNext ==
  /\ UNCHANGED part
  /\ \/ part = "quote" /\ Next
        /\ UNCHANGED <<references, learning, provider, proposal, matching>>
     \/ part = "references" /\ R!Next
        /\ UNCHANGED <<quotation, learning, provider, proposal, matching>>
     \/ part = "learning" /\ L!Next
        /\ UNCHANGED <<quotation, references, provider, proposal, matching>>
     \/ part = "provider" /\ P!Next
        /\ UNCHANGED <<quotation, references, learning, proposal, matching>>
     \/ part = "proposal" /\ H!Next
        /\ UNCHANGED <<quotation, references, learning, provider, matching>>
     \/ part = "matches" /\ M!Next
        /\ UNCHANGED <<quotation, references, learning, provider, proposal>>

OfficeVars == <<part, quotation, references, learning, provider, proposal, matching>>
OfficeSpec == OfficeInit /\ [][OfficeNext]_OfficeVars
=============================================================================
