---------------------------- MODULE IssuanceFacts ----------------------------
(***************************************************************************)
(* What a token-activity report promises, without cache, paging, failures  *)
(* or concurrency: an observer looks once at a prefix of the ledger and    *)
(* appends a fact.  An unverified fact promises nothing; a verified one    *)
(* states exactly the events of a gap-free window that ends at the newest  *)
(* entry observed; a timed one also bounds that window in block time.      *)
(***************************************************************************)
EXTENDS Integers, Sequences

CONSTANTS Event, MaxChain, MaxTime, NoTime

VARIABLES ledger, facts

Pos   == 1..MaxChain
Stamp == (0..MaxTime) \cup {NoTime}
Tx    == {tx \in [time : 0..MaxTime, ok : BOOLEAN, events : SUBSET Event] :
             tx.ok \/ tx.events = {}}

(* The window low..h of the ledger, as successful entries. *)
Window(low, h) == {i \in low..h : ledger[i].ok}

(* The observed prefix 1..h holds no other successful entry in (start, end]. *)
Complete(r) ==
    \A i \in 1..r.head :
        (ledger[i].ok /\ r.start < ledger[i].time /\ ledger[i].time <= r.end)
            => i \in r.selected

Promise(r) ==
    /\ r.verified => /\ r.head <= Len(ledger)
                     /\ r.selected = Window(r.low, r.head)
                     /\ \A s \in r.selected : r.events[s] = ledger[s].events
    /\ r.timed => r.verified /\ Complete(r)

Init == ledger \in Seq(Tx) /\ facts = <<>>

Extend  == \E tx \in Tx : ledger' = Append(ledger, tx) /\ UNCHANGED facts

Publish ==
    /\ Len(facts') = Len(facts) + 1
    /\ \A n \in 1..Len(facts) : facts'[n] = facts[n]
    /\ Promise(facts'[Len(facts')])
    /\ UNCHANGED ledger

Next == Extend \/ Publish

Spec == Init /\ [][Next]_<<ledger, facts>>
=============================================================================
