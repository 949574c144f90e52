---------------------------- MODULE MCStateStore ----------------------------
(***************************************************************************)
(* Instances of StateStore for TLC: two updates and a reset over a crash,  *)
(* started on every kind of local store, row and environment, and a reset  *)
(* beside the updates of store.json.                                       *)
(***************************************************************************)
EXTENDS StateStore

Nothing == [overlap |-> FALSE, limited |-> FALSE, environment |-> "absent", exists |-> FALSE,
            secrets |-> 0, database |-> Unreadable, row |-> Unreadable]

Found(schema, keys) ==
    [Nothing EXCEPT !.exists = TRUE, !.secrets = keys,
                    !.database = [schema |-> schema, generation |-> 1, updates |-> <<>>]]

Torn     == [Nothing EXCEPT !.exists = TRUE, !.secrets = 1]
Removed  == [Nothing EXCEPT !.secrets = 1]
Racing   == [Found(6, 1) EXCEPT !.overlap = TRUE]
FoundRow == [Nothing EXCEPT !.row = Seed(1)]

With(variable, situation)  == [situation EXCEPT !.environment = variable]
LimitedPublicApi(situation) == [situation EXCEPT !.limited = TRUE]

EverySituation ==
    {Nothing, Removed, Torn, Found(3, 0), Found(4, 1), Found(5, 1), Found(6, 1), Found(6, 0),
     Racing, FoundRow, LimitedPublicApi(FoundRow), With("keys", FoundRow),
     With("keys", Nothing), With("keys", Found(5, 0)), With("keys", Found(6, 0)),
     With("invalid", Nothing), With("invalid", Found(6, 1)),
     LimitedPublicApi(With("invalid", FoundRow))}
OnlyRacing == {Racing}
=============================================================================
