---------------------------- MODULE RecoveryLedger ----------------------------
(***************************************************************************)
(* What the planner promises about the plans of its requests, without      *)
(* authority, executors, threads or storage: a plan is opened once, closes *)
(* the request's earlier plans as it opens, is sent at most once, and is   *)
(* closed once, with a verdict only if it had been sent.                   *)
(*                                                                         *)
(* The ledger's promise as stated by the planner's documentation: "exactly *)
(* one authoritative terminal outcome may survive", no completion before   *)
(* dispatch, no completion after supersession, no duplicate success.       *)
(***************************************************************************)

CONSTANTS Ids, Clients

VARIABLE ledger

Verdicts == {"SUCCESS", "FAILURE"}

Unopened == [phase |-> "NONE"]
Entry(c, phase, verdict) == [client |-> c, phase |-> phase, verdict |-> verdict]

Active(e) == e.phase \in {"OPEN", "SENT"}
Closed(e, verdict) == Entry(e.client, "CLOSED", verdict)

LedgerInit == ledger = [id \in Ids |-> Unopened]

\* A new entry; whatever its client still had active is closed without verdict.
Open(id, c) ==
  /\ ledger[id] = Unopened
  /\ ledger' = [k \in Ids |->
       IF k = id THEN Entry(c, "OPEN", "NONE")
       ELSE IF Active(ledger[k]) /\ ledger[k].client = c
            THEN Closed(ledger[k], "NONE")
            ELSE ledger[k]]

Send(id) ==
  /\ ledger[id].phase = "OPEN"
  /\ ledger' = [ledger EXCEPT ![id] = Entry(ledger[id].client, "SENT", "NONE")]

\* The one verdict of an entry that was sent.
Conclude(id, verdict) ==
  /\ ledger[id].phase = "SENT"
  /\ ledger' = [ledger EXCEPT ![id] = Closed(ledger[id], verdict)]

\* Active entries given up without a verdict.
Withdraw(given) ==
  ledger' = [k \in Ids |->
    IF k \in given /\ Active(ledger[k]) THEN Closed(ledger[k], "NONE") ELSE ledger[k]]

LedgerNext ==
  \/ \E id \in Ids, c \in Clients : Open(id, c)
  \/ \E id \in Ids : Send(id) \/ \E verdict \in Verdicts : Conclude(id, verdict)
  \/ \E given \in SUBSET Ids : Withdraw(given)

LedgerSpec == LedgerInit /\ [][LedgerNext]_ledger

=============================================================================
