--------------------------- MODULE BaselineLedger ---------------------------
(***************************************************************************)
(* What baseline mode promises, without files, walks or crashes: there is  *)
(* one ledger of accepted findings, or none that can be read, and a scan   *)
(* compares everything it has seen with the ledger as it stands at one     *)
(* instant.                                                                *)
(***************************************************************************)
CONSTANTS Process, Entry, KeyOf(_)

VARIABLES ledger,   \* can it be read, and the keys of the accepted findings
          answer    \* of each process: what its scan has answered
ledgerVars == <<ledger, answer>>

Unreadable == [readable |-> FALSE, keys |-> {}]
Readable(S) == [readable |-> TRUE, keys |-> {KeyOf(e) : e \in S}]

Pending == [kind |-> "pending", seen |-> {}, new |-> {}]
Error   == [kind |-> "error", seen |-> {}, new |-> {}]
Report(S, N) == [kind |-> "report", seen |-> S, new |-> N]

LedgerInit == ledger = Unreadable /\ answer = [p \in Process |-> Pending]

\* A snapshot is adopted as a whole.
Adopt == /\ ledger' # ledger /\ ledger'.readable
         /\ \E S \in SUBSET Entry : ledger' = Readable(S)
         /\ UNCHANGED answer

\* The ledger is being rewritten, or was damaged by a crash.
Lose == ledger' = Unreadable /\ UNCHANGED answer

\* A scan reports what it has seen and the ledger does not list; without a
\* ledger it cannot.
Decide(p) ==
  /\ answer[p] = Pending /\ ledger.readable
  /\ answer' # answer
  /\ \E S \in SUBSET Entry :
       answer' = [answer EXCEPT ![p] = Report(S, {e \in S : KeyOf(e) \notin ledger.keys})]
  /\ UNCHANGED ledger

\* A scan may give up instead of answering.
Fail(p) ==
  /\ answer[p] = Pending
  /\ answer' = [answer EXCEPT ![p] = Error]
  /\ UNCHANGED ledger

\* A process that has answered is asked again.
Ask(p) == answer' = [answer EXCEPT ![p] = Pending] /\ UNCHANGED ledger

LedgerNext == Adopt \/ Lose \/ \E p \in Process : Decide(p) \/ Fail(p) \/ Ask(p)

LedgerSpec == LedgerInit /\ [][LedgerNext]_ledgerVars
=============================================================================
