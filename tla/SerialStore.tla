---------------------------- MODULE SerialStore ----------------------------
(***************************************************************************)
(* What the handlers rely on when they call store.update and store.reset   *)
(* (ProofrailStore in backend/src/store.ts): an update is applied to the   *)
(* database its predecessors left, at most once, before it is answered; an *)
(* update that is answered by an error, or by nothing because the process  *)
(* died, is not applied later; a reset replaces the whole database.        *)
(***************************************************************************)
EXTENDS Naturals, Sequences

CONSTANTS Clients,        \* calls of store.update
          MaxGenerations  \* bound: databases a reset or the first start creates

VARIABLES database,       \* generation and the updates applied to it, in order
          status          \* of each call

serial == <<database, status>>

SerialTypeOK ==
    /\ database \in [generation : 0..MaxGenerations, updates : Seq(Clients)]
    /\ status \in [Clients -> {"open", "applied", "ok", "failed"}]

\* Generation 0: there is no database yet.
SerialInit ==
    /\ database \in [generation : 0..MaxGenerations, updates : {<<>>}]
    /\ status = [c \in Clients |-> "open"]

Apply(c) ==
    /\ status[c] = "open"
    /\ status' = [status EXCEPT ![c] = "applied"]
    /\ database' = [database EXCEPT !.updates = Append(@, c)]

Resolve(c) ==
    /\ status[c] = "applied"
    /\ status' = [status EXCEPT ![c] = "ok"]
    /\ UNCHANGED database

\* Several calls end at once when the process dies.
Fail(gone) ==
    /\ \A c \in gone : status[c] \in {"open", "applied"}
    /\ status' = [c \in Clients |-> IF c \in gone THEN "failed" ELSE status[c]]
    /\ UNCHANGED database

Replace(generation) ==
    /\ generation > database.generation
    /\ database' = [generation |-> generation, updates |-> <<>>]
    /\ UNCHANGED status

SerialNext ==
    \/ \E c \in Clients : Apply(c) \/ Resolve(c)
    \/ \E gone \in SUBSET Clients : Fail(gone)
    \/ \E generation \in 1..MaxGenerations : Replace(generation)

SerialSpec == SerialInit /\ [][SerialNext]_serial
=============================================================================
