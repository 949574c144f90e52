-------------------------- MODULE StateStoreProofs --------------------------
(***************************************************************************)
(* Proofs about StateStore.  The invariant has three parts.  Calls says    *)
(* which engine a call is in and that callers run only when the store is   *)
(* up; it holds whatever the callers do.  The two others hold when resets  *)
(* are kept apart: Exclusive says that store.json has one writer at a time *)
(* and what that writer has in its temporary file, and Keys relates the    *)
(* database to the secrets and to the calls that are about to change them. *)
(***************************************************************************)
EXTENDS StateStore, TLAPS

InFile == {"open", "write", "rename"}

\* Which calls may be where: clients queue for store.json or run transactions, a
\* reset writes beside them, and init writes before any of them.
Calls ==
    /\ \A c \in Clients :
          pc[c] \in {"idle", "ok", "error", "lost", "applied"} \cup
                    (IF engine = "json" THEN {"queued"} \cup InFile ELSE {"commit", "retry"})
    /\ \A r \in Resets :
          pc[r] \in {"idle", "ok", "error", "lost", "applied"} \cup
                    (IF engine = "json" THEN InFile ELSE {"upsert"})
    /\ pc[Boot] \in {"idle", "ok", "error", "applied"} \cup InFile \cup
                    (IF engine = "json" THEN {} ELSE {"create"})
    /\ \A w \in Clients \cup Resets : pc[w] \in Busy => Up
    /\ \A w \in Writers : fd[w] # NoInode => pc[w] \in {"write", "rename"}
    /\ \A c \in Clients : /\ pc[c] = "idle" => attempts[c] = 0
                          /\ pc[c] = "retry" => attempts[c] < MaxAttempts
    /\ pc[Boot] = "applied" \/ (engine = "json" /\ Up) => file # NoInode

\* A client that writes store.json is at the head of the queue.
HeadWrites ==
    \A c \in Clients : engine = "json" /\ pc[c] \in InFile \cup {"applied"} => AtHead(c)

\* Nobody runs beside a reset that it may clash with.
ResetsApart ==
    \A v, w \in Clients \cup Resets :
        v # w /\ pc[v] \in Busy /\ pc[w] \in Busy => ~Clash(v, w)

\* The temporary file is not yet store.json, and holds what its writer wrote.
TempIsPrivate ==
    /\ temp # NoInode => temp # file
    /\ \A w \in Writers : pc[w] \in {"write", "rename"} =>
          /\ fd[w] = temp /\ temp # NoInode
          /\ content[temp] = IF pc[w] = "write" THEN Unreadable ELSE draft[w]

Exclusive == HeadWrites /\ ResetsApart /\ TempIsPrivate

Amended(database, c) == [database EXCEPT !.updates = Append(@, c)]

\* Which database each writer holds.
ClientDrafts ==
    \A c \in Clients :
        /\ pc[c] \in InFile => draft[c] = Amended(Local, c)
        /\ pc[c] = "commit" =>
              /\ seen[c] <= revision
              /\ seen[c] = revision => draft[c] = Amended(row, c)

ResetDrafts ==
    \A r \in Resets :
        /\ pc[r] \in InFile \cup {"upsert"} =>
              draft[r] = Seed(secrets) /\ Stored.generation < secrets
        /\ pc[r] = "applied" => Stored.generation = secrets

BootDraft ==
    /\ pc[Boot] \in InFile =>
          \/ file = NoInode /\ secrets # 0 /\ draft[Boot] = Seed(secrets)
          \/ Local # Unreadable /\ draft[Boot] = [Local EXCEPT !.schema = 6]
    /\ pc[Boot] = "create" =>
          \/ secrets # 0 /\ draft[Boot] = Seed(secrets)
          \/ Local # Unreadable /\ draft[Boot] = Local

Drafts == ClientDrafts /\ ResetDrafts /\ BootDraft

Unfinished == \E r \in Resets : pc[r] \in Busy \cup {"error", "lost"}

\* There are keys to read, unless the environment has an invalid value.
Kept == environment = "keys" \/ secrets # 0

\* What the secrets are worth for store.json, under either engine and under its own,
LocalKeys ==
    /\ Local # Unreadable => Local.schema # 0 /\ Local.generation # 0
    /\ Local.generation <= generations /\ secrets <= generations
    /\ secrets # 0 => Local.generation <= secrets
    /\ pc[Boot] \in InFile \cup {"applied", "create"} => Kept
    /\ pc[Boot] = "applied" => Local.schema = 6

JsonKeys ==
    /\ Up => Local.schema = 6 /\ Kept
    /\ Local # Unreadable /\ secrets \notin {0, Local.generation} => Unfinished

\* and for the row and the store.json it may be created from.
RowKeys ==
    /\ Local.updates = <<>>
    /\ pc[Boot] \in InFile \cup {"applied", "create"} => row = Unreadable
    /\ Local # Unreadable /\ secrets \notin {0, Local.generation} =>
          \/ row # Unreadable \/ crashes > 0
          \/ pc[Boot] = "create" /\ draft[Boot] = Seed(secrets)
    /\ Up => row # Unreadable /\ (limited \/ Kept)
    /\ row # Unreadable => row.generation # 0 /\ row.generation <= generations
    /\ row # Unreadable /\ secrets # 0 =>
          /\ row.generation <= secrets
          /\ \/ row.generation = secrets \/ Unfinished
             \/ crashes > 0 /\ row.generation = Local.generation

Keys == LocalKeys /\ (IF engine = "json" THEN JsonKeys ELSE RowKeys)

StoreInv == StoreTypeOK /\ Calls /\ (~overlap => Exclusive /\ Drafts /\ Keys)

-----------------------------------------------------------------------------
(* Databases and the writers of store.json.                                *)

LEMMA ConstantTypes ==
    /\ Boot \notin Clients \cup Resets /\ Clients \cap Resets = {}
    /\ MaxAttempts \in Nat \ {0} /\ MaxCrashes \in Nat /\ MaxGenerations \in Nat \ {0}
    /\ MaxInodes \in Nat \ {0} /\ NoInode \notin Inodes /\ 1 \in Inodes
    /\ Writers = Clients \cup Resets \cup {Boot}
BY StoreAssumption DEF NoInode, Inodes, Writers

LEMMA DatabasesTyped ==
    /\ Unreadable \in Database
    /\ \A g \in 0..MaxGenerations : Seed(g) \in Database
    /\ \A database \in Database :
          /\ [database EXCEPT !.schema = 6] \in Database
          /\ \A c \in Clients : Amended(database, c) \in Database
<1>1. <<>> \in Seq(Clients)
  OBVIOUS
<1>2. Unreadable \in Database
  BY <1>1, ConstantTypes DEF Database, Unreadable
<1>3. ASSUME NEW g \in 0..MaxGenerations PROVE Seed(g) \in Database
  BY <1>1 DEF Database, Seed
<1>4. ASSUME NEW database \in Database PROVE [database EXCEPT !.schema = 6] \in Database
  BY DEF Database
<1>5. ASSUME NEW database \in Database, NEW c \in Clients PROVE Amended(database, c) \in Database
  <2>1. Append(database.updates, c) \in Seq(Clients)
    BY DEF Database
  <2> QED BY <2>1 DEF Database, Amended
<1> QED BY <1>2, <1>3, <1>4, <1>5

\* What the fields of each of them are.
LEMMA DatabaseFields ==
    /\ Unreadable.schema = 0 /\ Unreadable.generation = 0 /\ Unreadable.updates = <<>>
    /\ \A g : Seed(g).schema = 6 /\ Seed(g).generation = g /\ Seed(g).updates = <<>>
    /\ \A database \in Database :
          /\ [database EXCEPT !.schema = 6].schema = 6
          /\ [database EXCEPT !.schema = 6].generation = database.generation
          /\ [database EXCEPT !.schema = 6].updates = database.updates
          /\ \A c : /\ Amended(database, c).schema = database.schema
                    /\ Amended(database, c).generation = database.generation
                    /\ Amended(database, c).updates = Append(database.updates, c)
BY DEF Database, Unreadable, Seed, Amended

LEMMA LocalTyped == ASSUME StoreTypeOK PROVE Local \in Database
BY DatabasesTyped DEF StoreTypeOK, Local

\* While the store is not up nobody calls it.
LEMMA BootAlone ==
    ASSUME Calls, ~Up
    PROVE  \A w \in Clients \cup Resets : pc[w] \notin Busy
BY DEF Calls

\* Who writes store.json is alone with it until its call returns.
LEMMA OneFileWriter ==
    ASSUME Calls, Exclusive, engine \in {"json", "postgres"},
           NEW v \in Writers, NEW w \in Writers,
           pc[v] \in InFile, pc[w] \in InFile \cup {"applied"}
    PROVE  v = w
<1>1. CASE v = Boot
  BY <1>1, BootAlone, ConstantTypes DEF Up, InFile, Busy
<1>2. CASE v # Boot
  <2>1. engine = "json" /\ Up /\ w # Boot
    BY <1>2, ConstantTypes DEF Calls, Up, InFile, Busy
  <2>2. CASE v \in Clients /\ w \in Clients
    BY <2>1, <2>2 DEF Exclusive, HeadWrites, AtHead
  <2>3. CASE v \in Resets \/ w \in Resets
    <3>1. SUFFICES ASSUME v # w PROVE FALSE
      OBVIOUS
    <3>2. v \in Clients \cup Resets /\ w \in Clients \cup Resets
      BY <1>2, <2>1 DEF Writers
    <3>3. pc[v] \in Busy /\ pc[w] \in Busy
      BY DEF InFile, Busy
    <3> QED BY <2>1, <2>3, <3>1, <3>2, <3>3 DEF Exclusive, ResetsApart, Clash
  <2> QED BY <1>2, <2>1, <2>2, <2>3 DEF Writers
<1> QED BY <1>1, <1>2

-----------------------------------------------------------------------------
(* Steps.                                                                  *)

\* A call ends; it ends well only when what it wrote was applied.
Ends(w) ==
    /\ pc[w] \in Busy
    /\ \E result \in {"ok", "error"} :
          Finish(w, result) /\ (result = "ok" => pc[w] = "applied")
    /\ UNCHANGED <<setting, disk, secrets, table, generations, crashes>>

LEMMA StepCases ==
    ASSUME [Next]_vars
    PROVE  \/ \E w \in Writers : OpenTemp(w) \/ WriteTemp(w) \/ RenameTemp(w)
           \/ \E w \in Clients \cup Resets : Ends(w)
           \/ \E c \in Clients : \/ Enqueue(c) \/ ReadStore(c)
                               \/ BeginTransaction(c) \/ Commit(c) \/ Retry(c)
           \/ \E r \in Resets : ResetSeeds(r) \/ Upsert(r)
           \/ BootFindsRow \/ BootSeeds \/ BootResumes \/ BootMigrates \/ BootFails \/ CreateRow
           \/ Crash
           \/ UNCHANGED vars
<1>1. ASSUME NEW w \in Clients \cup Resets, RenameFails(w) \/ Return(w) \/ Throws(w)
      PROVE  Ends(w)
  BY <1>1 DEF RenameFails, Return, Throws, Ends, Busy
<1>2. ASSUME NEW c \in Clients, ReadFails(c) \/ Exhausted(c) PROVE Ends(c)
  BY <1>2 DEF ReadFails, Exhausted, Ends, Busy
<1> QED BY <1>1, <1>2, ConstantTypes DEF Next, Write, Update, Start

LEMMA SettingKept == [Next]_vars => UNCHANGED setting
BY StepCases
DEF OpenTemp, WriteTemp, RenameTemp, Ends, Enqueue, ReadStore, BeginTransaction, Commit, Retry,
    ResetSeeds, Upsert, BootFindsRow, BootSeeds, BootResumes, BootMigrates, BootFails, CreateRow,
    Crash, vars

-----------------------------------------------------------------------------
(* Types.                                                                  *)

LEMMA TypesInit == Init => StoreTypeOK
<1> SUFFICES ASSUME Init PROVE StoreTypeOK
  OBVIOUS
<1>1. PICK local \in Situations :
          /\ overlap = local.overlap /\ limited = local.limited
          /\ environment = local.environment
          /\ file = IF local.exists THEN 1 ELSE NoInode
          /\ content = [i \in Inodes |-> IF i = 1 THEN local.database ELSE Unreadable]
          /\ secrets = local.secrets /\ row = local.row
          /\ generations = IF local.database # Unreadable THEN local.database.generation
                           ELSE IF local.row # Unreadable THEN local.row.generation
                           ELSE local.secrets
  BY DEF Init
<1>2. /\ local.overlap \in BOOLEAN /\ local.limited \in BOOLEAN
      /\ local.environment \in {"absent", "keys", "invalid"}
      /\ local.database \in Database /\ local.row \in Database
      /\ local.secrets \in 0..MaxGenerations
  BY StoreAssumption
<1>3. /\ local.database.generation \in 0..MaxGenerations
      /\ local.row.generation \in 0..MaxGenerations
  BY <1>2 DEF Database
<1>4. /\ overlap \in BOOLEAN /\ limited \in BOOLEAN
      /\ environment \in {"absent", "keys", "invalid"}
  BY <1>1, <1>2
<1>5. content \in [Inodes -> Database] /\ draft \in [Writers -> Database]
  BY <1>1, <1>2, DatabasesTyped DEF Init
<1>6. secrets \in 0..MaxGenerations /\ generations \in 0..MaxGenerations
  BY <1>1, <1>2, <1>3
<1>7. {file, temp} \subseteq Inodes \cup {NoInode} /\ fd \in [Writers -> Inodes \cup {NoInode}]
  BY <1>1, ConstantTypes DEF Init
<1>8. queue \in Seq(Clients) /\ row \in Database
  BY <1>1, <1>2 DEF Init
<1> QED BY <1>4, <1>5, <1>6, <1>7, <1>8, ConstantTypes DEF Init, StoreTypeOK, Writers

LEMMA TypesStep ==
    ASSUME StoreTypeOK, Calls, [Next]_vars
    PROVE  StoreTypeOK'
<1> USE ConstantTypes, DatabasesTyped DEF StoreTypeOK
<1>1. ASSUME NEW w \in Writers, OpenTemp(w) PROVE StoreTypeOK'
  <2>1. temp' \in Inodes
    BY <1>1 DEF OpenTemp
  <2> QED BY <1>1, <2>1 DEF OpenTemp, setting, table, Busy
<1>2. ASSUME NEW w \in Writers, WriteTemp(w) PROVE StoreTypeOK'
  <2>1. content' \in [Inodes -> Database]
    <3>1. PICK result \in {draft[w], Unreadable} :
              content' = [content EXCEPT ![fd[w]] = result]
      BY <1>2 DEF WriteTemp
    <3>2. result \in Database
      OBVIOUS
    <3> QED BY <3>1, <3>2
  <2> QED BY <1>2, <2>1 DEF WriteTemp, setting, table, Busy
<1>3. ASSUME NEW w \in Writers, RenameTemp(w) PROVE StoreTypeOK'
  BY <1>3 DEF RenameTemp, setting, table, Busy
<1>4. ASSUME NEW w \in Clients \cup Resets, Ends(w) PROVE StoreTypeOK'
  <2>1. PICK result \in {"ok", "error"} : Finish(w, result)
    BY <1>4 DEF Ends
  <2>2. queue' \in Seq(Clients)
    BY <2>1 DEF Finish, AtHead
  <2>3. pc' \in [Writers -> Busy \cup {"idle", "ok", "error", "lost"}]
    BY <2>1 DEF Finish
  <2>4. draft' \in [Writers -> Database] /\ fd' \in [Writers -> Inodes \cup {NoInode}]
    BY <2>1 DEF Finish
  <2>5. seen' \in [Clients -> Nat] /\ attempts' \in [Clients -> 0..MaxAttempts]
    <3>1. CASE w \in Clients
      <4>1. seen' = [seen EXCEPT ![w] = 0] /\ attempts' = [attempts EXCEPT ![w] = 0]
        BY <2>1, <3>1 DEF Finish
      <4>2. 0 \in Nat /\ 0 \in 0..MaxAttempts
        OBVIOUS
      <4> QED BY <4>1, <4>2
    <3>2. CASE w \notin Clients
      BY <2>1, <3>2 DEF Finish
    <3> QED BY <3>1, <3>2
  <2> QED BY <1>4, <2>2, <2>3, <2>4, <2>5 DEF Ends, setting, disk, table
<1>5. ASSUME NEW c \in Clients, Enqueue(c) PROVE StoreTypeOK'
  BY <1>5 DEF Enqueue, setting, disk, table, Busy
<1>6. ASSUME NEW c \in Clients, ReadStore(c) PROVE StoreTypeOK'
  <2>1. file \in Inodes
    BY <1>6 DEF ReadStore, Calls, Busy, Up
  <2>2. draft' = [draft EXCEPT ![c] = Amended(content[file], c)]
    BY <1>6 DEF ReadStore, Amended
  <2>3. draft' \in [Writers -> Database]
    BY <2>1, <2>2
  <2> QED BY <1>6, <2>3 DEF ReadStore, setting, disk, table, Busy
<1>7. ASSUME NEW c \in Clients, BeginTransaction(c) PROVE StoreTypeOK'
  <2>1. draft' = [draft EXCEPT ![c] = Amended(row, c)]
    BY <1>7 DEF BeginTransaction, Amended
  <2>2. draft' \in [Writers -> Database]
    BY <2>1
  <2>3. attempts[c] + 1 \in 0..MaxAttempts
    BY <1>7 DEF BeginTransaction, CanStart, Calls
  <2> QED BY <1>7, <2>2, <2>3 DEF BeginTransaction, setting, disk, table, Busy
<1>8. ASSUME NEW c \in Clients, Commit(c) \/ Retry(c) PROVE StoreTypeOK'
  <2>1. CASE Commit(c)
    <3>1. row' \in Database /\ revision' \in Nat
      BY <2>1 DEF Commit
    <3> QED BY <2>1, <3>1 DEF Commit, setting, disk, Busy
  <2>2. CASE Retry(c)
    BY <2>2 DEF Retry, setting, disk, table, Busy
  <2> QED BY <1>8, <2>1, <2>2
<1>9. ASSUME NEW r \in Resets, ResetSeeds(r) PROVE StoreTypeOK'
  <2>1. generations' \in 0..MaxGenerations
    BY <1>9 DEF ResetSeeds
  <2>2. Seed(generations') \in Database
    BY <2>1
  <2> QED BY <1>9, <2>1, <2>2 DEF ResetSeeds, setting, disk, table, Busy
<1>10. ASSUME NEW r \in Resets, Upsert(r) PROVE StoreTypeOK'
  BY <1>10 DEF Upsert, setting, disk, table, Busy
<1>11. CASE BootFindsRow
  BY <1>11 DEF BootFindsRow, setting, disk, table, Busy
<1>12. CASE BootSeeds
  <2>1. generations' \in 0..MaxGenerations /\ Seed(generations') \in Database
    BY <1>12 DEF BootSeeds
  <2> QED BY <1>12, <2>1 DEF BootSeeds, setting, disk, table, Busy
<1>13. CASE BootResumes
  BY <1>13, LocalTyped DEF BootResumes, setting, disk, table, Busy
<1>14. CASE BootMigrates
  <2>1. Local.generation \in 0..MaxGenerations
    BY LocalTyped DEF Database
  <2> QED BY <1>14, <2>1, LocalTyped DEF BootMigrates, setting, disk, table, Busy
<1>15. CASE BootFails
  <2>1. CASE engine = "json"
    BY <1>15, <2>1 DEF BootFails, setting, disk, table, Busy
  <2>2. CASE engine # "json"
    <3>1. generations' \in 0..MaxGenerations
      BY <1>15, <2>2 DEF BootFails
    <3>2. Seed(generations') \in Database
      BY <3>1
    <3> QED BY <1>15, <2>2, <3>1, <3>2 DEF BootFails, setting, disk, table, Busy
  <2> QED BY <2>1, <2>2
<1>16. CASE CreateRow
  BY <1>16 DEF CreateRow, Finish, AtHead, setting, disk, Busy
<1>17. CASE Crash
  BY <1>17 DEF Crash, setting, disk, table, Busy
<1>18. CASE UNCHANGED vars
  BY <1>18 DEF vars, setting, calls, disk, table
<1> QED
  BY <1>1, <1>2, <1>3, <1>4, <1>5, <1>6, <1>7, <1>8, <1>9, <1>10, <1>11, <1>12, <1>13, <1>14,
     <1>15, <1>16, <1>17, <1>18, StepCases

-----------------------------------------------------------------------------
(* Calls.                                                                  *)

LEMMA CallsInit == Init => Calls
BY ConstantTypes DEF Init, Calls, Busy, InFile, Up

LEMMA CallsStep ==
    ASSUME StoreTypeOK, Calls, [Next]_vars
    PROVE  Calls'
<1> USE ConstantTypes DEF Calls, Up, InFile, Busy
<1>0. pc \in [Writers -> Busy \cup {"idle", "ok", "error", "lost"}]
      /\ fd \in [Writers -> Inodes \cup {NoInode}] /\ attempts \in [Clients -> 0..MaxAttempts]
      /\ engine \in {"json", "postgres"} /\ temp \in Inodes \cup {NoInode}
  BY DEF StoreTypeOK
<1>1. ASSUME NEW w \in Writers, OpenTemp(w) PROVE Calls'
  BY <1>0, <1>1 DEF OpenTemp, setting
<1>2. ASSUME NEW w \in Writers, WriteTemp(w) PROVE Calls'
  BY <1>0, <1>2 DEF WriteTemp, setting
<1>3. ASSUME NEW w \in Writers, RenameTemp(w) PROVE Calls'
  BY <1>0, <1>3 DEF RenameTemp, setting
<1>4. ASSUME NEW w \in Clients \cup Resets, Ends(w) PROVE Calls'
  BY <1>0, <1>4 DEF Ends, Finish, setting, disk
<1>5. ASSUME NEW c \in Clients, Enqueue(c) PROVE Calls'
  BY <1>0, <1>5 DEF Enqueue, CanStart, setting, disk
<1>6. ASSUME NEW c \in Clients, ReadStore(c) PROVE Calls'
  BY <1>0, <1>6 DEF ReadStore, setting, disk
<1>7. ASSUME NEW c \in Clients, BeginTransaction(c) PROVE Calls'
  BY <1>0, <1>7 DEF BeginTransaction, CanStart, setting, disk
<1>8. ASSUME NEW c \in Clients, Commit(c) PROVE Calls'
  BY <1>0, <1>8 DEF Commit, setting, disk
<1>9. ASSUME NEW c \in Clients, Retry(c) PROVE Calls'
  BY <1>0, <1>9 DEF Retry, setting, disk
<1>10. ASSUME NEW r \in Resets, ResetSeeds(r) PROVE Calls'
  BY <1>0, <1>10 DEF ResetSeeds, CanStart, setting, disk
<1>11. ASSUME NEW r \in Resets, Upsert(r) PROVE Calls'
  BY <1>0, <1>11 DEF Upsert, setting, disk
<1>12. CASE BootFindsRow
  BY <1>0, <1>12 DEF BootFindsRow, setting, disk
<1>13. CASE BootSeeds
  BY <1>0, <1>13 DEF BootSeeds, ReadsLocal, setting, disk
<1>14. CASE BootResumes
  BY <1>0, <1>14, DatabaseFields DEF BootResumes, ReadsLocal, Local, setting, disk
<1>15. CASE BootMigrates
  BY <1>0, <1>15 DEF BootMigrates, ReadsLocal, setting, disk
<1>16. CASE BootFails
  BY <1>0, <1>16 DEF BootFails, ReadsLocal, setting, disk
<1>17. CASE CreateRow
  BY <1>0, <1>17 DEF CreateRow, Finish, setting, disk
<1>18. CASE Crash
  BY <1>0, <1>18 DEF Crash, setting, disk
<1>19. CASE UNCHANGED vars
  BY <1>19 DEF vars, setting, calls, disk
<1> QED
  BY <1>1, <1>2, <1>3, <1>4, <1>5, <1>6, <1>7, <1>8, <1>9, <1>10, <1>11, <1>12, <1>13, <1>14,
     <1>15, <1>16, <1>17, <1>18, <1>19, StepCases

-----------------------------------------------------------------------------
(* One writer at a time.                                                   *)

LEMMA ExclusiveInit == Init => Exclusive
BY ConstantTypes DEF Init, Exclusive, HeadWrites, ResetsApart, TempIsPrivate, InFile, Busy

LEMMA HeadWritesStep ==
    ASSUME StoreTypeOK, Calls, HeadWrites, [Next]_vars
    PROVE  HeadWrites'
<1> USE ConstantTypes DEF HeadWrites, AtHead, InFile
<1>0. /\ pc \in [Writers -> Busy \cup {"idle", "ok", "error", "lost"}]
      /\ queue \in Seq(Clients)
  BY DEF StoreTypeOK
<1>1. ASSUME NEW w \in Writers, OpenTemp(w) PROVE HeadWrites'
  BY <1>0, <1>1 DEF OpenTemp, setting
<1>2. ASSUME NEW w \in Writers, WriteTemp(w) PROVE HeadWrites'
  BY <1>0, <1>2 DEF WriteTemp, setting
<1>3. ASSUME NEW w \in Writers, RenameTemp(w) PROVE HeadWrites'
  BY <1>0, <1>3 DEF RenameTemp, setting
<1>4. ASSUME NEW w \in Clients \cup Resets, Ends(w) PROVE HeadWrites'
  BY <1>0, <1>4 DEF Ends, Finish, setting
<1>5. ASSUME NEW c \in Clients, Enqueue(c) PROVE HeadWrites'
  <2> SUFFICES ASSUME NEW d \in Clients, engine' = "json", pc'[d] \in InFile \cup {"applied"}
               PROVE  AtHead(d)'
    OBVIOUS
  <2>1. AtHead(d)
    BY <1>0, <1>5 DEF Enqueue, setting
  <2> QED BY <1>0, <1>5, <2>1 DEF Enqueue
<1>6. ASSUME NEW c \in Clients, ReadStore(c) PROVE HeadWrites'
  BY <1>0, <1>6 DEF ReadStore, setting
<1>7. ASSUME NEW c \in Clients, BeginTransaction(c) PROVE HeadWrites'
  BY <1>0, <1>7 DEF BeginTransaction, setting
<1>8. ASSUME NEW c \in Clients, Commit(c) PROVE HeadWrites'
  BY <1>0, <1>8 DEF Commit, Calls, setting
<1>9. ASSUME NEW c \in Clients, Retry(c) PROVE HeadWrites'
  BY <1>0, <1>9 DEF Retry, setting
<1>10. ASSUME NEW r \in Resets, ResetSeeds(r) PROVE HeadWrites'
  BY <1>0, <1>10 DEF ResetSeeds, setting
<1>11. ASSUME NEW r \in Resets, Upsert(r) PROVE HeadWrites'
  BY <1>0, <1>11 DEF Upsert, setting
<1>12. CASE BootFindsRow \/ BootSeeds \/ BootResumes \/ BootMigrates
  BY <1>0, <1>12 DEF BootFindsRow, BootSeeds, BootResumes, BootMigrates, setting
<1>13. CASE BootFails
  BY <1>0, <1>13 DEF BootFails, setting
<1>14. CASE CreateRow
  BY <1>0, <1>14 DEF CreateRow, Finish, setting
<1>15. CASE Crash
  BY <1>0, <1>15 DEF Crash, Busy
<1>16. CASE UNCHANGED vars
  BY <1>16 DEF vars, setting, calls
<1> QED
  BY <1>1, <1>2, <1>3, <1>4, <1>5, <1>6, <1>7, <1>8, <1>9, <1>10, <1>11, <1>12, <1>13, <1>14,
     <1>15, <1>16, StepCases

LEMMA ResetsApartStep ==
    ASSUME StoreTypeOK, ~overlap, ResetsApart, [Next]_vars
    PROVE  ResetsApart'
<1> USE ConstantTypes DEF ResetsApart
<1>0. pc \in [Writers -> Busy \cup {"idle", "ok", "error", "lost"}]
  BY DEF StoreTypeOK
<1>1. ASSUME engine' = engine,
             \A v \in Clients \cup Resets : pc'[v] \in Busy => pc[v] \in Busy
      PROVE  ResetsApart'
  BY <1>1 DEF Clash
<1>2. ASSUME NEW w \in Clients \cup Resets, CanStart(w), engine' = engine,
             \A v \in (Clients \cup Resets) \ {w} : pc'[v] \in Busy => pc[v] \in Busy
      PROVE  ResetsApart'
  <2>1. \A v \in (Clients \cup Resets) \ {w} : pc[v] \in Busy => ~Clash(v, w)
    BY <1>2 DEF CanStart
  <2> QED BY <1>2, <2>1 DEF Clash
<1>3. ASSUME NEW w \in Writers, OpenTemp(w) \/ WriteTemp(w) \/ RenameTemp(w) PROVE ResetsApart'
  <2>1. engine' = engine /\ pc[w] \in Busy /\ \E x : pc' = [pc EXCEPT ![w] = x]
    BY <1>3 DEF OpenTemp, WriteTemp, RenameTemp, setting, Busy
  <2> QED BY <1>0, <1>1, <2>1
<1>4. ASSUME NEW w \in Clients \cup Resets, Ends(w) PROVE ResetsApart'
  BY <1>0, <1>1, <1>4 DEF Ends, Finish, setting
<1>5. ASSUME NEW c \in Clients, Enqueue(c) PROVE ResetsApart'
  BY <1>0, <1>2, <1>5 DEF Enqueue, setting
<1>6. ASSUME NEW c \in Clients, ReadStore(c) \/ Commit(c) \/ Retry(c) PROVE ResetsApart'
  <2>1. engine' = engine /\ pc[c] \in Busy /\ \E x : pc' = [pc EXCEPT ![c] = x]
    BY <1>6 DEF ReadStore, Commit, Retry, setting, Busy
  <2> QED BY <1>0, <1>1, <2>1
<1>7. ASSUME NEW c \in Clients, BeginTransaction(c) PROVE ResetsApart'
  <2>1. CASE CanStart(c)
    BY <1>0, <1>2, <1>7, <2>1 DEF BeginTransaction, setting
  <2>2. CASE pc[c] = "retry"
    BY <1>0, <1>1, <1>7, <2>2 DEF BeginTransaction, setting, Busy
  <2> QED BY <1>7, <2>1, <2>2 DEF BeginTransaction
<1>8. ASSUME NEW r \in Resets, ResetSeeds(r) PROVE ResetsApart'
  BY <1>0, <1>2, <1>8 DEF ResetSeeds, setting
<1>9. ASSUME NEW r \in Resets, Upsert(r) PROVE ResetsApart'
  BY <1>0, <1>1, <1>9 DEF Upsert, setting, Busy
<1>10. CASE BootFindsRow \/ BootSeeds \/ BootResumes \/ BootMigrates
  BY <1>0, <1>1, <1>10 DEF BootFindsRow, BootSeeds, BootResumes, BootMigrates, setting
<1>11. CASE BootFails
  BY <1>0, <1>1, <1>11 DEF BootFails, setting
<1>12. CASE CreateRow
  BY <1>0, <1>1, <1>12 DEF CreateRow, Finish, setting
<1>13. CASE Crash
  BY <1>0, <1>1, <1>13 DEF Crash, setting, Busy
<1>14. CASE UNCHANGED vars
  BY <1>1, <1>14 DEF vars, setting, calls
<1> QED
  BY <1>3, <1>4, <1>5, <1>6, <1>7, <1>8, <1>9, <1>10, <1>11, <1>12, <1>13, <1>14, StepCases

\* What each step of a writer does to store.json and to its own file.
LEMMA OpenTempEffect ==
    ASSUME StoreTypeOK, TempIsPrivate, NEW w \in Writers, OpenTemp(w)
    PROVE  /\ temp' \in Inodes /\ temp' # file /\ file' = file
           /\ content'[temp'] = Unreadable
           /\ Local' = Local
<1>1. /\ temp' \in Inodes /\ temp' # file /\ file' = file
      /\ content' = [content EXCEPT ![temp'] = Unreadable]
  BY ConstantTypes DEF StoreTypeOK, TempIsPrivate, OpenTemp
<1> QED BY <1>1 DEF StoreTypeOK, Local

LEMMA WriteTempEffect ==
    ASSUME StoreTypeOK, Calls, Exclusive, NEW w \in Writers, WriteTemp(w)
    PROVE  /\ content'[temp] = draft[w] /\ temp' = temp /\ file' = file
           /\ Local' = Local
<1>1. fd[w] = temp /\ temp \in Inodes /\ temp # file /\ content[temp] = Unreadable
  BY ConstantTypes DEF StoreTypeOK, Exclusive, TempIsPrivate, WriteTemp
<1>2. \A v \in Writers \ {w} : fd[v] # fd[w]
  <2> SUFFICES ASSUME NEW v \in Writers \ {w}, fd[v] = fd[w] PROVE FALSE
    OBVIOUS
  <2>1. pc[v] \in InFile /\ pc[w] \in InFile
    BY <1>1, ConstantTypes DEF Calls, WriteTemp, InFile
  <2> QED BY <2>1, OneFileWriter DEF StoreTypeOK
<1>3. content' = [content EXCEPT ![temp] = draft[w]]
  BY <1>1, <1>2 DEF WriteTemp
<1> QED BY <1>1, <1>3 DEF StoreTypeOK, WriteTemp, Local

LEMMA RenameTempEffect ==
    ASSUME StoreTypeOK, Exclusive, NEW w \in Writers, RenameTemp(w)
    PROVE  Local' = draft[w] /\ file' # NoInode /\ temp' = NoInode
BY ConstantTypes DEF Exclusive, TempIsPrivate, RenameTemp, Local

LEMMA TempIsPrivateStep ==
    ASSUME StoreTypeOK, Calls, Exclusive, [Next]_vars
    PROVE  TempIsPrivate'
<1> USE ConstantTypes DEF InFile
<1>0. /\ pc \in [Writers -> Busy \cup {"idle", "ok", "error", "lost"}]
      /\ fd \in [Writers -> Inodes \cup {NoInode}] /\ draft \in [Writers -> Database]
      /\ engine \in {"json", "postgres"} /\ TempIsPrivate
  BY DEF StoreTypeOK, Exclusive
<1>1. ASSUME NEW w \in Writers, OpenTemp(w) PROVE TempIsPrivate'
  <2>1. \A v \in Writers : pc'[v] \in {"write", "rename"} => v = w
    BY <1>0, <1>1, OneFileWriter DEF OpenTemp
  <2>2. fd'[w] = temp' /\ pc'[w] = "write"
    BY <1>0, <1>1 DEF OpenTemp
  <2>3. temp' \in Inodes /\ temp' # file /\ file' = file /\ content'[temp'] = Unreadable
    BY <1>0, <1>1, OpenTempEffect
  <2> QED BY <2>1, <2>2, <2>3 DEF TempIsPrivate
<1>2. ASSUME NEW w \in Writers, WriteTemp(w) PROVE TempIsPrivate'
  <2>1. \A v \in Writers : pc'[v] \in {"write", "rename"} => v = w
    BY <1>0, <1>2, OneFileWriter DEF WriteTemp
  <2>2. pc'[w] = "rename" /\ pc[w] = "write" /\ UNCHANGED <<fd, draft>>
    BY <1>0, <1>2 DEF WriteTemp
  <2> QED BY <1>0, <1>2, <2>1, <2>2, WriteTempEffect DEF TempIsPrivate
<1>3. ASSUME NEW w \in Writers, RenameTemp(w) PROVE TempIsPrivate'
  <2>1. \A v \in Writers : pc'[v] \notin {"write", "rename"}
    BY <1>0, <1>3, OneFileWriter DEF RenameTemp
  <2> QED BY <1>3, <2>1 DEF RenameTemp, TempIsPrivate
<1>4. ASSUME NEW w \in Writers, UNCHANGED disk, pc'[w] \notin {"write", "rename"},
             \A v \in Writers \ {w} : pc'[v] = pc[v] /\ fd'[v] = fd[v] /\ draft'[v] = draft[v]
      PROVE  TempIsPrivate'
  BY <1>0, <1>4 DEF TempIsPrivate, disk
<1>5. ASSUME NEW w \in Clients \cup Resets, Ends(w) PROVE TempIsPrivate'
  BY <1>0, <1>4, <1>5 DEF Ends, Finish
<1>6. ASSUME NEW c \in Clients, Enqueue(c) \/ ReadStore(c) \/ BeginTransaction(c)
      PROVE  TempIsPrivate'
  BY <1>0, <1>4, <1>6 DEF Enqueue, ReadStore, BeginTransaction
<1>7. ASSUME NEW c \in Clients, Commit(c) \/ Retry(c) PROVE TempIsPrivate'
  BY <1>0, <1>4, <1>7 DEF Commit, Retry
<1>8. ASSUME NEW r \in Resets, ResetSeeds(r) \/ Upsert(r) PROVE TempIsPrivate'
  BY <1>0, <1>4, <1>8 DEF ResetSeeds, Upsert
<1>9. CASE BootFindsRow \/ BootSeeds \/ BootMigrates
  BY <1>0, <1>4, <1>9 DEF BootFindsRow, BootSeeds, BootMigrates
<1>10. CASE BootResumes
  BY <1>0, <1>4, <1>10 DEF BootResumes
<1>11. CASE BootFails
  BY <1>0, <1>4, <1>11 DEF BootFails
<1>12. CASE CreateRow
  BY <1>0, <1>4, <1>12 DEF CreateRow, Finish
<1>13. CASE Crash
  BY <1>0, <1>13 DEF Crash, TempIsPrivate, Busy, disk
<1>14. CASE UNCHANGED vars
  BY <1>0, <1>14 DEF vars, calls, disk, TempIsPrivate
<1> QED
  BY <1>1, <1>2, <1>3, <1>5, <1>6, <1>7, <1>8, <1>9, <1>10, <1>11, <1>12, <1>13, <1>14, StepCases

LEMMA ExclusiveStep ==
    ASSUME StoreTypeOK, Calls, Exclusive, ~overlap, [Next]_vars
    PROVE  Exclusive'
BY HeadWritesStep, ResetsApartStep, TempIsPrivateStep DEF Exclusive

-----------------------------------------------------------------------------
(* Drafts.                                                                 *)

\* Only init acts while the store is not up, and only callers when it is.
LEMMA StartSteps ==
    ASSUME StoreTypeOK, Calls, ~Up, [Next]_vars
    PROVE  \/ OpenTemp(Boot) \/ WriteTemp(Boot) \/ RenameTemp(Boot)
           \/ BootFindsRow \/ BootSeeds \/ BootResumes \/ BootMigrates \/ BootFails \/ CreateRow
           \/ Crash \/ UNCHANGED vars
<1>1. ASSUME NEW w \in Clients \cup Resets, OpenTemp(w) \/ WriteTemp(w) \/ RenameTemp(w) \/ Ends(w)
      PROVE  FALSE
  BY <1>1, BootAlone DEF OpenTemp, WriteTemp, RenameTemp, Ends, Busy
<1>2. ASSUME NEW c \in Clients,
             Enqueue(c) \/ ReadStore(c) \/ BeginTransaction(c) \/ Commit(c) \/ Retry(c)
      PROVE  FALSE
  BY <1>2, BootAlone DEF Enqueue, ReadStore, BeginTransaction, Commit, Retry, CanStart, Busy
<1>3. ASSUME NEW r \in Resets, ResetSeeds(r) \/ Upsert(r) PROVE FALSE
  BY <1>3, BootAlone DEF ResetSeeds, Upsert, CanStart, Busy
<1> QED BY <1>1, <1>2, <1>3, StepCases, ConstantTypes

LEMMA CallSteps ==
    ASSUME Up, [Next]_vars
    PROVE  \/ \E w \in Clients \cup Resets :
                  OpenTemp(w) \/ WriteTemp(w) \/ RenameTemp(w) \/ Ends(w)
           \/ \E c \in Clients : \/ Enqueue(c) \/ ReadStore(c)
                               \/ BeginTransaction(c) \/ Commit(c) \/ Retry(c)
           \/ \E r \in Resets : ResetSeeds(r) \/ Upsert(r)
           \/ Crash \/ UNCHANGED vars
<1>1. ~(OpenTemp(Boot) \/ WriteTemp(Boot) \/ RenameTemp(Boot))
  BY DEF Up, OpenTemp, WriteTemp, RenameTemp
<1>2. ~(BootFindsRow \/ BootSeeds \/ BootResumes \/ BootMigrates \/ BootFails \/ CreateRow)
  BY DEF Up, BootFindsRow, BootSeeds, BootResumes, BootMigrates, BootFails, CreateRow, ReadsLocal
<1> QED BY <1>1, <1>2, StepCases, ConstantTypes

LEMMA StoredKept ==
    ASSUME UNCHANGED disk
    PROVE  Local' = Local /\ (UNCHANGED <<engine, row>> => Stored' = Stored)
BY DEF disk, Local, Stored

LEMMA DraftsInit == Init => Drafts
BY ConstantTypes DEF Init, Drafts, ClientDrafts, ResetDrafts, BootDraft, InFile

\* After a step of init, and after a crash, nobody calls.
LEMMA NobodyCalls ==
    ASSUME \A w \in Clients \cup Resets : pc'[w] \notin Busy
    PROVE  ClientDrafts' /\ ResetDrafts'
BY DEF ClientDrafts, ResetDrafts, InFile, Busy

LEMMA StartKeepsDrafts ==
    ASSUME StoreInv, ~overlap, ~Up, [Next]_vars
    PROVE  Drafts'
<1> USE ConstantTypes, DatabaseFields
<1>0. /\ StoreTypeOK /\ Calls /\ Exclusive /\ BootDraft /\ LocalKeys
      /\ pc \in [Writers -> Busy \cup {"idle", "ok", "error", "lost"}]
      /\ draft \in [Writers -> Database] /\ generations \in Nat
  BY DEF StoreInv, Drafts, Keys, StoreTypeOK
<1>1. \A w \in Clients \cup Resets : pc[w] \notin Busy
  BY <1>0, BootAlone
<1>2. ASSUME \A w \in Clients \cup Resets : pc'[w] = pc[w], BootDraft' PROVE Drafts'
  BY <1>1, <1>2, NobodyCalls DEF Drafts
<1>3. CASE OpenTemp(Boot)
  <2>1. Local' = Local /\ file' = file
    BY <1>0, <1>3, OpenTempEffect DEF Exclusive
  <2> QED BY <1>0, <1>2, <1>3, <2>1 DEF OpenTemp, BootDraft, InFile
<1>4. CASE WriteTemp(Boot)
  <2>1. Local' = Local /\ file' = file
    BY <1>0, <1>4, WriteTempEffect
  <2> QED BY <1>0, <1>2, <1>4, <2>1 DEF WriteTemp, BootDraft, InFile
<1>5. CASE RenameTemp(Boot)
  BY <1>0, <1>2, <1>5 DEF RenameTemp, BootDraft, InFile
<1>6. CASE BootFindsRow
  BY <1>0, <1>2, <1>6 DEF BootFindsRow, BootDraft, InFile
<1>7. CASE BootSeeds
  BY <1>0, <1>2, <1>7 DEF BootSeeds, BootDraft, InFile, disk
<1>8. CASE BootResumes
  <2>1. Local # Unreadable /\ Local' = Local
    BY <1>0, <1>8, StoredKept DEF BootResumes, LocalKeys
  <2> QED BY <1>0, <1>2, <1>8, <2>1 DEF BootResumes, BootDraft, InFile
<1>9. CASE BootMigrates
  <2>1. Local # Unreadable /\ Local' = Local
    BY <1>9, StoredKept DEF BootMigrates
  <2> QED BY <1>0, <1>2, <1>9, <2>1 DEF BootMigrates, BootDraft, InFile
<1>10. CASE BootFails
  BY <1>0, <1>2, <1>10 DEF BootFails, BootDraft, InFile
<1>11. CASE CreateRow
  BY <1>0, <1>2, <1>11 DEF CreateRow, Finish, BootDraft, InFile
<1>12. CASE Crash
  <2>1. BootDraft' /\ \A w \in Clients \cup Resets : pc'[w] \notin Busy
    BY <1>0, <1>12 DEF Crash, BootDraft, InFile, Busy
  <2> QED BY <2>1, NobodyCalls DEF Drafts
<1>13. CASE UNCHANGED vars
  BY <1>0, <1>2, <1>13 DEF vars, calls, disk, BootDraft, Local
<1> QED
  BY <1>0, <1>3, <1>4, <1>5, <1>6, <1>7, <1>8, <1>9, <1>10, <1>11, <1>12, <1>13, StartSteps

\* A reset that runs is the only one, and with store.json the only call.
LEMMA ResetAlone ==
    ASSUME ResetsApart, NEW r \in Resets, pc[r] \in Busy,
           NEW w \in Clients \cup Resets, w # r, w \in Resets \/ engine = "json"
    PROVE  pc[w] \notin Busy /\ (overlap \/ ~CanStart(w))
<1>1. Clash(w, r) /\ Clash(r, w)
  BY DEF Clash
<1>2. pc[w] \notin Busy
  BY <1>1 DEF ResetsApart
<1>3. CanStart(w) => overlap
  BY <1>1 DEF CanStart, Writers
<1> QED BY <1>2, <1>3

LEMMA CallsKeepClientDrafts ==
    ASSUME StoreInv, ~overlap, Up, [Next]_vars
    PROVE  ClientDrafts'
<1> USE ConstantTypes DEF InFile
<1>0. /\ StoreTypeOK /\ Calls /\ Exclusive /\ ClientDrafts
      /\ pc \in [Writers -> Busy \cup {"idle", "ok", "error", "lost"}]
      /\ draft \in [Writers -> Database] /\ seen \in [Clients -> Nat] /\ revision \in Nat
      /\ engine \in {"json", "postgres"}
  BY DEF StoreInv, Drafts, StoreTypeOK
<1>1. ASSUME NEW w \in Clients \cup Resets, OpenTemp(w) PROVE ClientDrafts'
  <2>1. Local' = Local
    BY <1>0, <1>1, OpenTempEffect DEF Exclusive
  <2> QED BY <1>0, <1>1, <2>1 DEF OpenTemp, table, ClientDrafts
<1>2. ASSUME NEW w \in Clients \cup Resets, WriteTemp(w) PROVE ClientDrafts'
  <2>1. Local' = Local
    BY <1>0, <1>2, WriteTempEffect
  <2> QED BY <1>0, <1>2, <2>1 DEF WriteTemp, table, ClientDrafts
<1>3. ASSUME NEW w \in Clients \cup Resets, RenameTemp(w) PROVE ClientDrafts'
  <2>1. \A c \in Clients : pc'[c] \notin InFile
    BY <1>0, <1>3, OneFileWriter DEF RenameTemp
  <2> QED BY <1>0, <1>3, <2>1 DEF RenameTemp, table, ClientDrafts
<1>4. ASSUME NEW w \in Clients \cup Resets, Ends(w) PROVE ClientDrafts'
  <2>1. Local' = Local
    BY <1>4, StoredKept DEF Ends
  <2>2. PICK result \in {"ok", "error"} : Finish(w, result)
    BY <1>4 DEF Ends
  <2>3. \A c \in Clients : c # w => pc'[c] = pc[c] /\ draft'[c] = draft[c] /\ seen'[c] = seen[c]
    BY <1>0, <2>2 DEF Finish
  <2>4. pc'[w] \in {"ok", "error"}
    BY <1>0, <2>2 DEF Finish
  <2> QED BY <1>0, <1>4, <2>1, <2>3, <2>4 DEF Ends, table, ClientDrafts
<1>5. ASSUME NEW c \in Clients, Enqueue(c) PROVE ClientDrafts'
  <2>1. Local' = Local
    BY <1>5, StoredKept DEF Enqueue
  <2> QED BY <1>0, <1>5, <2>1 DEF Enqueue, table, ClientDrafts
<1>6. ASSUME NEW c \in Clients, ReadStore(c) PROVE ClientDrafts'
  <2>1. Local' = Local
    BY <1>6, StoredKept DEF ReadStore
  <2>2. Local = content[file]
    BY <1>0, <1>6 DEF ReadStore, Calls, Local, Busy
  <2>3. draft' = [draft EXCEPT ![c] = Amended(Local, c)]
    BY <1>6, <2>2 DEF ReadStore, Amended
  <2> QED BY <1>0, <1>6, <2>1, <2>3 DEF ReadStore, table, ClientDrafts
<1>7. ASSUME NEW c \in Clients, BeginTransaction(c) PROVE ClientDrafts'
  <2>1. Local' = Local
    BY <1>7, StoredKept DEF BeginTransaction
  <2>2. draft' = [draft EXCEPT ![c] = Amended(row, c)]
    BY <1>7 DEF BeginTransaction, Amended
  <2> QED BY <1>0, <1>7, <2>1, <2>2 DEF BeginTransaction, table, ClientDrafts
<1>8. ASSUME NEW c \in Clients, Commit(c) PROVE ClientDrafts'
  <2>1. Local' = Local
    BY <1>8, StoredKept DEF Commit
  <2> QED BY <1>0, <1>8, <2>1 DEF Commit, ClientDrafts
<1>9. ASSUME NEW c \in Clients, Retry(c) PROVE ClientDrafts'
  <2>1. Local' = Local
    BY <1>9, StoredKept DEF Retry
  <2> QED BY <1>0, <1>9, <2>1 DEF Retry, table, ClientDrafts
<1>10. ASSUME NEW r \in Resets, ResetSeeds(r) PROVE ClientDrafts'
  <2>1. Local' = Local
    BY <1>10, StoredKept DEF ResetSeeds
  <2> QED BY <1>0, <1>10, <2>1 DEF ResetSeeds, table, ClientDrafts
<1>11. ASSUME NEW r \in Resets, Upsert(r) PROVE ClientDrafts'
  <2>1. Local' = Local
    BY <1>11, StoredKept DEF Upsert
  <2> QED BY <1>0, <1>11, <2>1 DEF Upsert, ClientDrafts
<1>12. CASE Crash
  <2>1. \A w \in Clients \cup Resets : pc'[w] \notin Busy
    BY <1>0, <1>12 DEF Crash, Busy
  <2> QED BY <2>1, NobodyCalls
<1>13. CASE UNCHANGED vars
  BY <1>0, <1>13 DEF vars, calls, disk, table, ClientDrafts, Local
<1> QED
  BY <1>1, <1>2, <1>3, <1>4, <1>5, <1>6, <1>7, <1>8, <1>9, <1>10, <1>11, <1>12, <1>13, CallSteps

LEMMA CallsKeepResetDrafts ==
    ASSUME StoreInv, ~overlap, Up, [Next]_vars
    PROVE  ResetDrafts'
<1> USE ConstantTypes, DatabaseFields DEF InFile
<1>0. /\ StoreTypeOK /\ Calls /\ Exclusive /\ ClientDrafts /\ ResetDrafts /\ Keys
      /\ pc \in [Writers -> Busy \cup {"idle", "ok", "error", "lost"}]
      /\ draft \in [Writers -> Database] /\ row \in Database /\ Local \in Database
      /\ secrets \in Nat /\ generations \in Nat
      /\ engine \in {"json", "postgres"}
  BY LocalTyped DEF StoreInv, Drafts, StoreTypeOK
<1>1. ASSUME NEW w \in Clients \cup Resets, OpenTemp(w) PROVE ResetDrafts'
  <2>1. Stored' = Stored
    BY <1>0, <1>1, OpenTempEffect DEF Exclusive, OpenTemp, setting, table, Stored
  <2> QED BY <1>0, <1>1, <2>1 DEF OpenTemp, ResetDrafts
<1>2. ASSUME NEW w \in Clients \cup Resets, WriteTemp(w) PROVE ResetDrafts'
  <2>1. Stored' = Stored
    BY <1>0, <1>2, WriteTempEffect DEF WriteTemp, setting, table, Stored
  <2> QED BY <1>0, <1>2, <2>1 DEF WriteTemp, ResetDrafts
<1>3. ASSUME NEW w \in Clients \cup Resets, RenameTemp(w) PROVE ResetDrafts'
  <2>1. engine = "json" /\ engine' = engine
    BY <1>0, <1>3 DEF RenameTemp, setting, Calls
  <2>2. Stored' = draft[w]
    BY <1>0, <1>3, <2>1, RenameTempEffect DEF Stored
  <2> SUFFICES ASSUME NEW r \in Resets, pc'[r] \in InFile \cup {"upsert", "applied"}
               PROVE  pc'[r] = "applied" /\ Stored'.generation = secrets'
    BY DEF ResetDrafts
  <2>3. r = w
    BY <1>0, <1>3, <2>1, OneFileWriter DEF RenameTemp, Calls
  <2> QED BY <1>0, <1>3, <2>2, <2>3 DEF RenameTemp, ResetDrafts
<1>4. ASSUME NEW w \in Clients \cup Resets, Ends(w) PROVE ResetDrafts'
  <2>1. Stored' = Stored
    BY <1>4, StoredKept DEF Ends, setting, table
  <2>2. PICK result \in {"ok", "error"} : Finish(w, result)
    BY <1>4 DEF Ends
  <2> QED BY <1>0, <1>4, <2>1, <2>2 DEF Ends, Finish, ResetDrafts
<1>5. ASSUME NEW c \in Clients, Enqueue(c) \/ ReadStore(c) \/ BeginTransaction(c) \/ Retry(c)
      PROVE  ResetDrafts'
  <2>1. Stored' = Stored /\ secrets' = secrets
    BY <1>5, StoredKept DEF Enqueue, ReadStore, BeginTransaction, Retry, setting, table
  <2>2. \A r \in Resets : pc'[r] = pc[r] /\ draft'[r] = draft[r]
    BY <1>0, <1>5 DEF Enqueue, ReadStore, BeginTransaction, Retry
  <2> QED BY <1>0, <2>1, <2>2 DEF ResetDrafts
<1>6. ASSUME NEW c \in Clients, Commit(c) PROVE ResetDrafts'
  <2>1. engine = "postgres" /\ engine' = engine
    BY <1>0, <1>6 DEF Commit, Calls, setting
  <2>2. Stored'.generation = Stored.generation
    BY <1>0, <1>6, <2>1 DEF Commit, ClientDrafts, Stored
  <2> QED BY <1>0, <1>6, <2>2 DEF Commit, ResetDrafts
<1>7. ASSUME NEW r \in Resets, ResetSeeds(r) PROVE ResetDrafts'
  <2>1. Stored' = Stored
    BY <1>7, StoredKept DEF ResetSeeds, setting, table
  <2>2. Stored.generation <= generations
    <3>1. engine = "postgres" => row # Unreadable /\ row.generation <= generations
      BY <1>0, <1>7 DEF Keys, RowKeys, ResetSeeds, CanStart
    <3> QED BY <1>0, <3>1 DEF Keys, LocalKeys, Stored
  <2>3. \A s \in Resets : s # r => pc[s] \notin Busy
    BY <1>0, <1>7, ResetAlone DEF ResetSeeds, Exclusive
  <2>4. \A s \in Resets : s # r => pc'[s] \notin Busy
    BY <1>0, <1>7, <2>3 DEF ResetSeeds
  <2>5. /\ pc'[r] \in {"open", "upsert"} /\ draft'[r] = Seed(secrets')
        /\ secrets' = generations + 1
    BY <1>0, <1>7 DEF ResetSeeds
  <2>6. Stored.generation \in Nat
    BY <1>0 DEF Stored, Database
  <2> QED BY <1>0, <2>1, <2>2, <2>4, <2>5, <2>6 DEF ResetDrafts, Busy
<1>8. ASSUME NEW r \in Resets, Upsert(r) PROVE ResetDrafts'
  <2>1. engine = "postgres" /\ engine' = engine
    BY <1>0, <1>8 DEF Upsert, Calls, setting
  <2>2. Stored'.generation = secrets
    BY <1>0, <1>8, <2>1 DEF Upsert, ResetDrafts, Stored
  <2>3. \A s \in Resets : s # r => pc'[s] \notin Busy
    BY <1>0, <1>8, ResetAlone DEF Upsert, Exclusive, Busy
  <2> QED BY <1>0, <1>8, <2>2, <2>3 DEF Upsert, ResetDrafts, Busy
<1>9. CASE Crash
  <2>1. \A w \in Clients \cup Resets : pc'[w] \notin Busy
    BY <1>0, <1>9 DEF Crash, Busy
  <2> QED BY <2>1, NobodyCalls
<1>10. CASE UNCHANGED vars
  BY <1>0, <1>10 DEF vars, setting, calls, disk, table, ResetDrafts, Stored, Local
<1> QED
  BY <1>1, <1>2, <1>3, <1>4, <1>5, <1>6, <1>7, <1>8, <1>9, <1>10, CallSteps

LEMMA DraftsStep ==
    ASSUME StoreInv, ~overlap, [Next]_vars
    PROVE  Drafts'
<1>1. CASE Up
  <2>1. pc'[Boot] \notin InFile \cup {"create"}
    <3>1. pc[Boot] = "ok" /\ pc \in [Writers -> Busy \cup {"idle", "ok", "error", "lost"}]
      BY <1>1 DEF Up, StoreInv, StoreTypeOK
    <3>2. CASE Crash
      BY <3>2, ConstantTypes DEF Crash, InFile
    <3>3. CASE UNCHANGED vars
      BY <3>1, <3>3 DEF vars, calls, InFile
    <3>4. ASSUME NEW w \in Clients \cup Resets,
                 OpenTemp(w) \/ WriteTemp(w) \/ RenameTemp(w) \/ Ends(w)
          PROVE  pc'[Boot] = "ok"
      BY <3>1, <3>4, ConstantTypes DEF OpenTemp, WriteTemp, RenameTemp, Ends, Finish
    <3>5. ASSUME NEW c \in Clients,
                 Enqueue(c) \/ ReadStore(c) \/ BeginTransaction(c) \/ Commit(c) \/ Retry(c)
          PROVE  pc'[Boot] = "ok"
      BY <3>1, <3>5, ConstantTypes DEF Enqueue, ReadStore, BeginTransaction, Commit, Retry
    <3>6. ASSUME NEW r \in Resets, ResetSeeds(r) \/ Upsert(r) PROVE pc'[Boot] = "ok"
      BY <3>1, <3>6, ConstantTypes DEF ResetSeeds, Upsert
    <3> QED BY <1>1, <3>2, <3>3, <3>4, <3>5, <3>6, CallSteps DEF InFile
  <2>2. BootDraft'
    BY <2>1 DEF BootDraft
  <2> QED BY <1>1, <2>2, CallsKeepClientDrafts, CallsKeepResetDrafts DEF Drafts
<1>2. CASE ~Up
  BY <1>2, StartKeepsDrafts
<1> QED BY <1>1, <1>2

-----------------------------------------------------------------------------
(* Keys.                                                                   *)

LEMMA KeysInit == Init => Keys
<1> SUFFICES ASSUME Init PROVE Keys
  OBVIOUS
<1>1. PICK local \in Situations :
          /\ file = IF local.exists THEN 1 ELSE NoInode
          /\ content = [i \in Inodes |-> IF i = 1 THEN local.database ELSE Unreadable]
          /\ secrets = local.secrets /\ row = local.row
          /\ generations = IF local.database # Unreadable THEN local.database.generation
                           ELSE IF local.row # Unreadable THEN local.row.generation
                           ELSE local.secrets
  BY DEF Init
<1>2. /\ local.database \in Database /\ local.row \in Database
      /\ local.secrets \in 0..MaxGenerations
      /\ ~local.exists => local.database = Unreadable
      /\ local.database # Unreadable =>
            /\ local.database.schema # 0 /\ local.database.generation # 0
            /\ local.database.updates = <<>>
            /\ local.secrets \in {0, local.database.generation}
      /\ local.row # Unreadable =>
            /\ local.row.generation # 0 /\ local.database = Unreadable
            /\ local.secrets \in {0, local.row.generation}
  BY StoreAssumption
<1>3. Local = local.database
  BY <1>1, <1>2, ConstantTypes DEF Local
<1>4. Local.generation \in 0..MaxGenerations /\ local.row.generation \in 0..MaxGenerations
  BY <1>2, <1>3 DEF Database
<1>5. pc[Boot] = "idle"
  BY ConstantTypes DEF Init
<1>6. LocalKeys
  BY <1>1, <1>2, <1>3, <1>4, <1>5, DatabaseFields DEF LocalKeys, InFile
<1>7. JsonKeys
  BY <1>1, <1>2, <1>3, <1>5 DEF JsonKeys, Up
<1>8. RowKeys
  BY <1>1, <1>2, <1>3, <1>4, <1>5, DatabaseFields DEF RowKeys, Up, InFile
<1> QED BY <1>6, <1>7, <1>8 DEF Keys

LEMMA StartKeepsKeys ==
    ASSUME StoreInv, ~overlap, ~Up, [Next]_vars
    PROVE  Keys'
<1> USE ConstantTypes, DatabaseFields DEF InFile, Up, Kept, setting
<1>0. /\ StoreTypeOK /\ Calls /\ Exclusive /\ BootDraft /\ LocalKeys
      /\ engine = "json" => JsonKeys
      /\ engine = "postgres" => RowKeys
      /\ pc \in [Writers -> Busy \cup {"idle", "ok", "error", "lost"}]
      /\ draft \in [Writers -> Database] /\ row \in Database /\ Local \in Database
      /\ Local.generation \in Nat /\ row.generation \in Nat
      /\ secrets \in Nat /\ generations \in Nat /\ crashes \in Nat
      /\ engine \in {"json", "postgres"}
  <2>1. /\ StoreTypeOK /\ Calls /\ Exclusive /\ BootDraft /\ LocalKeys
        /\ engine = "json" => JsonKeys
        /\ engine = "postgres" => RowKeys
    BY DEF StoreInv, Drafts, Keys
  <2>2. Local \in Database /\ Local.generation \in Nat
    BY <2>1, LocalTyped DEF Database
  <2>3. row \in Database /\ row.generation \in Nat
    BY <2>1 DEF StoreTypeOK, Database
  <2> QED BY <2>1, <2>2, <2>3 DEF StoreTypeOK
<1>1. \A w \in Clients \cup Resets : pc[w] \notin Busy
  BY <1>0, BootAlone DEF Up
<1>2. ASSUME UNCHANGED setting, LocalKeys', engine = "json" => JsonKeys',
             engine = "postgres" => RowKeys'
      PROVE  Keys'
  BY <1>0, <1>2 DEF Keys, setting
<1>3. ASSUME \A w \in Resets : pc'[w] = pc[w] PROVE Unfinished' <=> Unfinished
  BY <1>3 DEF Unfinished
<1>4. CASE OpenTemp(Boot) \/ WriteTemp(Boot)
  <2>1. Local' = Local
    BY <1>0, <1>4, OpenTempEffect, WriteTempEffect DEF Exclusive
  <2>2. /\ pc[Boot] \in InFile /\ pc'[Boot] \in InFile
        /\ \A w \in Resets : pc'[w] = pc[w]
        /\ UNCHANGED <<setting, secrets, generations, crashes, row>>
    BY <1>0, <1>4 DEF OpenTemp, WriteTemp, table
  <2>3. LocalKeys'
    BY <1>0, <2>1, <2>2 DEF LocalKeys
  <2>4. engine = "json" => JsonKeys'
    BY <1>0, <1>3, <2>1, <2>2 DEF JsonKeys
  <2>5. engine = "postgres" => RowKeys'
    BY <1>0, <1>3, <2>1, <2>2 DEF RowKeys
  <2> QED BY <1>2, <2>2, <2>3, <2>4, <2>5
<1>5. CASE RenameTemp(Boot)
  <2>1. Local' = draft[Boot]
    BY <1>0, <1>5, RenameTempEffect
  <2>2. /\ pc[Boot] = "rename" /\ pc'[Boot] = "applied"
        /\ \A w \in Resets : pc'[w] = pc[w]
        /\ UNCHANGED <<setting, secrets, generations, crashes, row>>
    BY <1>0, <1>5 DEF RenameTemp, table
  <2>3. \/ secrets # 0 /\ draft[Boot] = Seed(secrets)
        \/ Local # Unreadable /\ draft[Boot] = [Local EXCEPT !.schema = 6]
    BY <1>0, <2>2 DEF BootDraft
  <2>4. /\ Local'.schema = 6 /\ Local'.updates \in {<<>>, Local.updates}
        /\ \/ secrets # 0 /\ Local'.generation = secrets
           \/ Local # Unreadable /\ Local'.generation = Local.generation
    <3>1. CASE secrets # 0 /\ draft[Boot] = Seed(secrets)
      BY <2>1, <3>1
    <3>2. CASE Local # Unreadable /\ draft[Boot] = [Local EXCEPT !.schema = 6]
      <4>1. Local' = [Local EXCEPT !.schema = 6] /\ Local \in Database
        BY <1>0, <2>1, <3>2
      <4>2. /\ Local'.schema = 6 /\ Local'.updates = Local.updates
            /\ Local'.generation = Local.generation
        BY <4>1 DEF Database
      <4> QED BY <3>2, <4>2
    <3> QED BY <2>3, <3>1, <3>2
  <2>5. LocalKeys'
    BY <1>0, <2>2, <2>4 DEF LocalKeys
  <2>6. engine = "json" => JsonKeys'
    BY <1>0, <1>3, <2>2, <2>4 DEF JsonKeys
  <2>7. engine = "postgres" => RowKeys'
    BY <1>0, <1>3, <2>2, <2>4 DEF RowKeys
  <2> QED BY <1>2, <2>2, <2>5, <2>6, <2>7
<1>6. CASE BootFindsRow
  <2>1. Local' = Local
    BY <1>6, StoredKept DEF BootFindsRow
  <2>2. /\ pc'[Boot] \in {"ok", "error"} /\ row # Unreadable /\ engine = "postgres"
        /\ \A w \in Resets : pc'[w] = pc[w]
        /\ UNCHANGED <<setting, secrets, generations, crashes, row>>
    BY <1>0, <1>6 DEF BootFindsRow, table
  <2>3. pc'[Boot] = "ok" => limited \/ Kept
    BY <1>0, <1>6 DEF BootFindsRow, Readable
  <2>4. LocalKeys'
    BY <1>0, <2>1, <2>2 DEF LocalKeys
  <2>5. RowKeys'
    BY <1>0, <1>3, <2>1, <2>2, <2>3 DEF RowKeys
  <2> QED BY <1>2, <2>2, <2>4, <2>5
<1>7. CASE BootSeeds
  <2>1. Local' = Unreadable
    BY <1>7 DEF BootSeeds, Local, disk
  <2>2. /\ pc'[Boot] = "open" /\ (engine = "postgres" => row = Unreadable)
        /\ generations' = generations + 1 /\ secrets' = generations'
        /\ UNCHANGED <<setting, row>>
    BY <1>0, <1>7 DEF BootSeeds, ReadsLocal, table
  <2>3. LocalKeys'
    BY <1>0, <2>1, <2>2 DEF LocalKeys
  <2>4. JsonKeys'
    BY <2>1, <2>2 DEF JsonKeys
  <2>5. engine = "postgres" => RowKeys'
    BY <2>1, <2>2 DEF RowKeys
  <2> QED BY <1>2, <2>2, <2>3, <2>4, <2>5
<1>8. CASE BootResumes
  <2>1. Local' = Local
    BY <1>8, StoredKept DEF BootResumes
  <2>2. /\ pc[Boot] \in {"idle", "applied"}
        /\ pc'[Boot] = IF engine = "json" THEN "ok" ELSE "create"
        /\ \A w \in Resets : pc'[w] = pc[w]
        /\ UNCHANGED <<setting, secrets, generations, crashes, row>>
    BY <1>0, <1>8 DEF BootResumes, ReadsLocal, table
  <2>3. Local.schema = 6 /\ Kept
    BY <1>0, <1>8 DEF BootResumes, LocalKeys, Readable
  <2>4. engine = "postgres" => row = Unreadable
    BY <1>0, <1>8 DEF BootResumes, ReadsLocal, RowKeys
  <2>5. LocalKeys'
    BY <1>0, <2>1, <2>2, <2>3 DEF LocalKeys
  <2>6. engine = "json" => JsonKeys'
    BY <1>0, <1>3, <2>1, <2>2, <2>3 DEF JsonKeys
  <2>7. engine = "postgres" => RowKeys'
    BY <1>0, <1>3, <2>1, <2>2, <2>4 DEF RowKeys
  <2> QED BY <1>2, <2>2, <2>5, <2>6, <2>7
<1>9. CASE BootMigrates
  <2>1. Local' = Local
    BY <1>9, StoredKept DEF BootMigrates
  <2>2. /\ pc[Boot] = "idle" /\ pc'[Boot] = "open" /\ Local # Unreadable
        /\ \A w \in Resets : pc'[w] = pc[w]
        /\ UNCHANGED <<setting, generations, crashes, row>>
        /\ engine = "postgres" => row = Unreadable
    BY <1>0, <1>9 DEF BootMigrates, ReadsLocal, table
  <2>3. secrets' = Local.generation \/ (secrets' = secrets /\ Kept)
    BY <1>9 DEF BootMigrates, Readable
  <2>4. LocalKeys'
    BY <1>0, <2>1, <2>2, <2>3 DEF LocalKeys
  <2>5. engine = "json" => JsonKeys'
    BY <1>0, <1>3, <2>1, <2>2, <2>3 DEF JsonKeys
  <2>6. engine = "postgres" => RowKeys'
    BY <1>0, <1>3, <2>1, <2>2, <2>3 DEF RowKeys
  <2> QED BY <1>2, <2>2, <2>4, <2>5, <2>6
<1>10. CASE BootFails
  <2>1. Local' = Local /\ UNCHANGED <<setting, crashes, row>>
    BY <1>10, StoredKept DEF BootFails, table
  <2>2. \A w \in Resets : pc'[w] = pc[w]
    BY <1>0, <1>10 DEF BootFails
  <2>3. CASE engine = "json"
    <3>1. pc'[Boot] = "error" /\ UNCHANGED <<secrets, generations>>
      BY <1>0, <1>10, <2>3 DEF BootFails
    <3>2. LocalKeys'
      BY <1>0, <2>1, <3>1 DEF LocalKeys
    <3>3. JsonKeys'
      BY <1>0, <1>3, <2>1, <2>2, <2>3, <3>1 DEF JsonKeys
    <3> QED BY <1>2, <2>1, <2>3, <3>2, <3>3
  <2>4. CASE engine = "postgres"
    <3>1. /\ pc'[Boot] = "create" /\ draft'[Boot] = Seed(secrets')
          /\ generations' = generations + 1 /\ secrets' = generations'
      BY <1>0, <1>10, <2>4 DEF BootFails
    <3>2. row = Unreadable
      BY <1>0, <1>10, <2>4 DEF BootFails, ReadsLocal, RowKeys
    <3>3. LocalKeys'
      BY <1>0, <2>1, <3>1 DEF LocalKeys
    <3>4. RowKeys'
      BY <1>0, <2>1, <2>4, <3>1, <3>2 DEF RowKeys
    <3> QED BY <1>2, <2>1, <2>4, <3>3, <3>4
  <2> QED BY <1>0, <2>3, <2>4
<1>11. CASE CreateRow
  <2>1. Local' = Local /\ UNCHANGED <<setting, secrets, generations, crashes>>
    BY <1>11, StoredKept DEF CreateRow
  <2>2. /\ pc[Boot] = "create" /\ pc'[Boot] = "ok" /\ row' = draft[Boot]
        /\ \A w \in Resets : pc'[w] = pc[w]
    BY <1>0, <1>11 DEF CreateRow, Finish
  <2>3. engine = "postgres"
    BY <1>0, <2>2 DEF Calls
  <2>4. \/ secrets # 0 /\ draft[Boot] = Seed(secrets)
        \/ Local # Unreadable /\ draft[Boot] = Local
    BY <1>0, <2>2 DEF BootDraft
  <2>5. /\ Kept /\ row' # Unreadable
        /\ row'.generation # 0 /\ row'.generation <= generations
        /\ secrets # 0 => row'.generation <= secrets
    BY <1>0, <2>2, <2>4 DEF LocalKeys
  <2>6. LocalKeys'
    BY <1>0, <2>1, <2>2 DEF LocalKeys
  <2>7. secrets # 0 => \/ row'.generation = secrets \/ Unfinished
                       \/ crashes > 0 /\ row'.generation = Local.generation
    BY <1>0, <2>2, <2>3, <2>4, <2>5 DEF RowKeys
  <2>8. RowKeys'
    BY <1>0, <1>3, <2>1, <2>2, <2>3, <2>5, <2>7 DEF RowKeys
  <2> QED BY <1>2, <2>1, <2>3, <2>6, <2>8
<1>12. CASE Crash
  <2>1. Local' = Local /\ UNCHANGED <<setting, secrets, generations, row>> /\ crashes' > 0
    BY <1>0, <1>12, StoredKept DEF Crash, table
  <2>2. pc'[Boot] = "idle" /\ \A w \in Resets : pc'[w] = pc[w]
    BY <1>0, <1>1, <1>12 DEF Crash
  <2>3. LocalKeys'
    BY <1>0, <2>1, <2>2 DEF LocalKeys
  <2>4. engine = "json" => JsonKeys'
    BY <1>0, <1>3, <2>1, <2>2 DEF JsonKeys
  <2>5. engine = "postgres" => RowKeys'
    BY <1>0, <1>3, <2>1, <2>2 DEF RowKeys
  <2> QED BY <1>2, <2>1, <2>3, <2>4, <2>5
<1>13. CASE UNCHANGED vars
  BY <1>0, <1>13
  DEF vars, setting, calls, disk, table, Keys, LocalKeys, JsonKeys, RowKeys, Local, Unfinished
<1> QED
  BY <1>0, <1>4, <1>5, <1>6, <1>7, <1>8, <1>9, <1>10, <1>11, <1>12, <1>13, StartSteps DEF Up

LEMMA CallsKeepKeys ==
    ASSUME StoreInv, ~overlap, Up, [Next]_vars
    PROVE  Keys'
<1> USE ConstantTypes, DatabaseFields DEF InFile, Up, Kept, setting
<1>0. /\ StoreTypeOK /\ Calls /\ Exclusive /\ ClientDrafts /\ ResetDrafts /\ LocalKeys
      /\ engine = "json" => JsonKeys
      /\ engine = "postgres" => RowKeys
      /\ pc \in [Writers -> Busy \cup {"idle", "ok", "error", "lost"}]
      /\ draft \in [Writers -> Database] /\ row \in Database /\ Local \in Database
      /\ Local.generation \in Nat /\ row.generation \in Nat
      /\ secrets \in Nat /\ generations \in Nat /\ crashes \in Nat
      /\ engine \in {"json", "postgres"}
  <2>1. /\ StoreTypeOK /\ Calls /\ Exclusive /\ ClientDrafts /\ ResetDrafts /\ LocalKeys
        /\ engine = "json" => JsonKeys
        /\ engine = "postgres" => RowKeys
    BY DEF StoreInv, Drafts, Keys
  <2>2. Local \in Database /\ Local.generation \in Nat
    BY <2>1, LocalTyped DEF Database
  <2>3. row \in Database /\ row.generation \in Nat
    BY <2>1 DEF StoreTypeOK, Database
  <2> QED BY <2>1, <2>2, <2>3 DEF StoreTypeOK
\* Steps that leave store.json, row and secrets: a reset may not be forgotten.
<1>1. ASSUME UNCHANGED <<setting, secrets, generations, crashes, row>>, Local' = Local,
             pc'[Boot] = pc[Boot], Unfinished => Unfinished' \/ Stored.generation = secrets
      PROVE  Keys'
  <2>1. LocalKeys'
    BY <1>0, <1>1 DEF LocalKeys
  <2>2. CASE engine = "json"
    <3>1. JsonKeys'
      BY <1>0, <1>1, <2>2 DEF JsonKeys, Stored
    <3> QED BY <1>1, <2>1, <2>2, <3>1 DEF Keys, setting
  <2>3. CASE engine = "postgres"
    <3>1. RowKeys'
      BY <1>0, <1>1, <2>3 DEF RowKeys, Stored
    <3> QED BY <1>1, <2>1, <2>3, <3>1 DEF Keys, setting
  <2> QED BY <1>0, <2>2, <2>3
<1>2. ASSUME NEW w \in Clients \cup Resets, OpenTemp(w) \/ WriteTemp(w) PROVE Keys'
  <2>1. Local' = Local
    BY <1>0, <1>2, OpenTempEffect, WriteTempEffect DEF Exclusive
  <2>2. /\ UNCHANGED <<setting, secrets, generations, crashes, row>>
        /\ pc'[Boot] = pc[Boot] /\ (Unfinished => Unfinished')
    BY <1>0, <1>2 DEF OpenTemp, WriteTemp, table, Unfinished, Busy
  <2> QED BY <1>1, <2>1, <2>2
<1>3. ASSUME NEW w \in Clients \cup Resets, RenameTemp(w) PROVE Keys'
  <2>1. /\ Local' = draft[w] /\ pc[w] = "rename" /\ pc'[Boot] = pc[Boot]
        /\ UNCHANGED <<setting, secrets, generations>>
        /\ Unfinished => Unfinished'
    BY <1>0, <1>3, RenameTempEffect DEF RenameTemp, Unfinished, Busy
  <2>2. engine = "json"
    BY <1>0, <2>1 DEF Calls
  <2>3. JsonKeys
    BY <1>0, <2>2
  <2>4. /\ Local'.schema = 6 /\ Local'.generation \in {Local.generation, secrets}
        /\ Local'.generation # 0
    <3>1. CASE w \in Clients
      BY <1>0, <1>3, <2>1, <2>3, <3>1 DEF ClientDrafts, JsonKeys, LocalKeys, RenameTemp
    <3>2. CASE w \in Resets
      BY <1>0, <2>1, <2>2, <3>2 DEF ResetDrafts, Stored
    <3> QED BY <3>1, <3>2
  <2>5. LocalKeys'
    BY <1>0, <2>1, <2>3, <2>4 DEF LocalKeys, JsonKeys
  <2>6. JsonKeys'
    BY <2>1, <2>3, <2>4 DEF JsonKeys
  <2> QED BY <2>1, <2>2, <2>5, <2>6 DEF Keys, setting
<1>4. ASSUME NEW w \in Clients \cup Resets, Ends(w) PROVE Keys'
  <2>1. Local' = Local /\ UNCHANGED <<setting, secrets, generations, crashes, row>>
    BY <1>4, StoredKept DEF Ends, table
  <2>2. PICK result \in {"ok", "error"} :
            Finish(w, result) /\ (result = "ok" => pc[w] = "applied")
    BY <1>4 DEF Ends
  <2>3. pc'[w] = result /\ \A v \in Writers : v # w => pc'[v] = pc[v]
    BY <1>0, <2>2 DEF Finish
  <2>4. Unfinished => Unfinished' \/ Stored.generation = secrets
    BY <1>0, <2>2, <2>3 DEF Unfinished, ResetDrafts
  <2> QED BY <1>1, <2>1, <2>3, <2>4
<1>5. ASSUME NEW c \in Clients, Enqueue(c) \/ ReadStore(c) \/ BeginTransaction(c) \/ Retry(c)
      PROVE  Keys'
  <2>1. Local' = Local /\ UNCHANGED <<setting, secrets, generations, crashes, row>>
    BY <1>5, StoredKept DEF Enqueue, ReadStore, BeginTransaction, Retry, table
  <2>2. \A v \in Resets \cup {Boot} : pc'[v] = pc[v]
    BY <1>0, <1>5 DEF Enqueue, ReadStore, BeginTransaction, Retry
  <2> QED BY <1>1, <2>1, <2>2 DEF Unfinished
<1>6. ASSUME NEW c \in Clients, Commit(c) PROVE Keys'
  <2>1. Local' = Local /\ UNCHANGED <<setting, secrets, generations, crashes>>
    BY <1>6, StoredKept DEF Commit
  <2>2. engine = "postgres"
    BY <1>0, <1>6 DEF Commit, Calls
  <2>3. \A v \in Resets \cup {Boot} : pc'[v] = pc[v]
    BY <1>0, <1>6 DEF Commit
  <2>4. row'.generation = row.generation
    BY <1>0, <1>6 DEF Commit, ClientDrafts
  <2>5. row # Unreadable /\ row' # Unreadable
    BY <1>0, <1>6, <2>2, <2>4 DEF RowKeys
  <2>6. LocalKeys'
    BY <1>0, <2>1, <2>3 DEF LocalKeys
  <2>7. RowKeys'
    BY <1>0, <2>1, <2>2, <2>3, <2>4, <2>5 DEF RowKeys, Unfinished
  <2> QED BY <2>1, <2>2, <2>6, <2>7 DEF Keys, setting
<1>7. ASSUME NEW r \in Resets, ResetSeeds(r) PROVE Keys'
  <2>1. /\ Local' = Local /\ UNCHANGED <<setting, crashes, row>>
        /\ generations' = generations + 1 /\ secrets' = generations'
    BY <1>7, StoredKept DEF ResetSeeds, table
  <2>2. pc'[Boot] = pc[Boot] /\ Unfinished'
    BY <1>0, <1>7 DEF ResetSeeds, Unfinished, Busy
  <2>3. LocalKeys'
    BY <1>0, <2>1, <2>2 DEF LocalKeys
  <2>4. CASE engine = "json"
    <3>1. JsonKeys'
      BY <1>0, <2>1, <2>2, <2>4 DEF JsonKeys
    <3> QED BY <2>1, <2>3, <2>4, <3>1 DEF Keys, setting
  <2>5. CASE engine = "postgres"
    <3>1. row.generation # 0 /\ row.generation <= generations
      BY <1>0, <2>5 DEF RowKeys
    <3>2. RowKeys'
      BY <1>0, <2>1, <2>2, <2>5, <3>1 DEF RowKeys
    <3> QED BY <2>1, <2>3, <2>5, <3>2 DEF Keys, setting
  <2> QED BY <1>0, <2>4, <2>5
<1>8. ASSUME NEW r \in Resets, Upsert(r) PROVE Keys'
  <2>1. Local' = Local /\ UNCHANGED <<setting, secrets, generations, crashes>>
    BY <1>8, StoredKept DEF Upsert
  <2>2. engine = "postgres" /\ pc'[Boot] = pc[Boot]
    BY <1>0, <1>8 DEF Upsert, Calls
  <2>3. row' = Seed(secrets) /\ row.generation < secrets
    BY <1>0, <1>8, <2>2 DEF Upsert, ResetDrafts, Stored
  <2>4. LocalKeys'
    BY <1>0, <2>1, <2>2 DEF LocalKeys
  <2>5. secrets # 0 /\ secrets <= generations
    BY <1>0, <2>3 DEF LocalKeys
  <2>6. RowKeys'
    BY <1>0, <2>1, <2>2, <2>3, <2>5 DEF RowKeys
  <2> QED BY <2>1, <2>2, <2>4, <2>6 DEF Keys, setting
<1>9. CASE Crash
  <2>1. Local' = Local /\ UNCHANGED <<setting, secrets, generations, row>> /\ crashes' > 0
    BY <1>0, <1>9, StoredKept DEF Crash, table
  <2>2. pc'[Boot] = "idle" /\ (Unfinished => Unfinished')
    BY <1>0, <1>9 DEF Crash, Unfinished
  <2>3. LocalKeys'
    BY <1>0, <2>1, <2>2 DEF LocalKeys
  <2>4. CASE engine = "json"
    <3>1. JsonKeys'
      BY <1>0, <2>1, <2>2, <2>4 DEF JsonKeys
    <3> QED BY <2>1, <2>3, <2>4, <3>1 DEF Keys, setting
  <2>5. CASE engine = "postgres"
    <3>1. RowKeys'
      BY <1>0, <2>1, <2>2, <2>5 DEF RowKeys
    <3> QED BY <2>1, <2>3, <2>5, <3>1 DEF Keys, setting
  <2> QED BY <1>0, <2>4, <2>5
<1>10. CASE UNCHANGED vars
  <2>1. Local' = Local
    BY <1>10, StoredKept DEF vars
  <2> QED BY <1>1, <1>10, <2>1 DEF vars, calls, table, Unfinished
<1> QED
  BY <1>2, <1>3, <1>4, <1>5, <1>6, <1>7, <1>8, <1>9, <1>10, CallSteps DEF Up

-----------------------------------------------------------------------------
(* The invariant and what it gives.                                        *)

LEMMA StoreInvInit == Init => StoreInv
BY TypesInit, CallsInit, ExclusiveInit, DraftsInit, KeysInit DEF StoreInv

LEMMA StoreInvStep == StoreInv /\ [Next]_vars => StoreInv'
<1> SUFFICES ASSUME StoreInv, [Next]_vars PROVE StoreInv'
  OBVIOUS
<1>1. StoreTypeOK /\ Calls
  BY DEF StoreInv
<1>2. StoreTypeOK' /\ Calls'
  BY <1>1, TypesStep, CallsStep
<1>3. overlap' = overlap
  BY SettingKept DEF setting
<1>4. CASE overlap
  BY <1>2, <1>3, <1>4 DEF StoreInv
<1>5. CASE ~overlap
  <2>1. Exclusive'
    BY <1>1, <1>5, ExclusiveStep DEF StoreInv
  <2>2. Keys'
    BY <1>5, StartKeepsKeys, CallsKeepKeys
  <2> QED BY <1>2, <1>5, <2>1, <2>2, DraftsStep DEF StoreInv
<1> QED BY <1>4, <1>5

\* What holds of every state of both engines, for any calls, resets and crashes.
THEOREM StoreInvariant == Spec => []StoreInv
<1> QED BY StoreInvInit, StoreInvStep, PTL DEF Spec

\* Every state is well typed, also when resets run beside other calls.
THEOREM StoreTypeCorrect == Spec => []StoreTypeOK
<1>1. StoreInv => StoreTypeOK
  BY DEF StoreInv
<1> QED BY <1>1, StoreInvariant, PTL

\* Where the environment has no keys the identities of the database follow the stored
\* ones through every crash of init, migration, seeding and reset, with either engine.
THEOREM StoreKeysFollowDatabase == Spec => []KeysFollowDatabase
<1>1. StoreInv => KeysFollowDatabase
  <2> SUFFICES ASSUME StoreInv, Up, ~overlap, environment = "absent"
               PROVE  /\ secrets # 0 \/ limited
                      /\ secrets # 0 =>
                            /\ Stored.generation <= secrets
                            /\ \/ Stored.generation = secrets
                               \/ \E r \in Resets : pc[r] \in Busy \cup {"error", "lost"}
                               \/ /\ engine = "postgres" /\ crashes > 0
                                  /\ Stored.generation = Local.generation
    BY DEF KeysFollowDatabase
  <2>1. LocalKeys /\ (IF engine = "json" THEN JsonKeys ELSE RowKeys)
    BY DEF StoreInv, Keys
  <2>2. engine \in {"json", "postgres"} /\ secrets \in Nat
    BY DEF StoreInv, StoreTypeOK
  <2>3. CASE engine = "json"
    <3>1. Stored = Local /\ Local # Unreadable
      BY <2>1, <2>3, DatabaseFields DEF Stored, JsonKeys
    <3> QED BY <2>1, <2>3, <3>1 DEF LocalKeys, JsonKeys, Kept, Unfinished
  <2>4. CASE engine = "postgres"
    <3>1. Stored = row /\ row # Unreadable
      BY <2>1, <2>4 DEF Stored, RowKeys
    <3> QED BY <2>1, <2>2, <2>4, <3>1 DEF RowKeys, Kept, Unfinished
  <2> QED BY <2>2, <2>3, <2>4
<1> QED BY <1>1, StoreInvariant, PTL

\* From here a start finds what it needs.
Startable ==
    /\ pc[Boot] \in {"idle", "ok"} /\ environment # "invalid"
    /\ IF engine = "json" THEN file # NoInode /\ Local.schema = 6 /\ Kept
                          ELSE row # Unreadable /\ (limited \/ Kept)

LEMMA StartableStep == StoreInv /\ ~overlap /\ Startable /\ [Next]_vars => Startable'
<1> SUFFICES ASSUME StoreInv, ~overlap, Startable, [Next]_vars PROVE Startable'
  OBVIOUS
<1> USE ConstantTypes, DatabaseFields
<1>0. /\ StoreTypeOK /\ Calls /\ pc \in [Writers -> Busy \cup {"idle", "ok", "error", "lost"}]
      /\ StoreInv' /\ engine \in {"json", "postgres"}
      /\ environment \in {"absent", "keys", "invalid"}
  BY StoreInvStep DEF StoreInv, StoreTypeOK
<1>1. UNCHANGED setting
  BY SettingKept
<1>2. ASSUME Up' PROVE Startable'
  <2>1. Keys' /\ Calls'
    BY <1>0, <1>1 DEF StoreInv, setting
  <2> QED BY <1>0, <1>1, <1>2, <2>1
     DEF Keys, LocalKeys, JsonKeys, RowKeys, Calls, Up, Startable, Kept, setting
<1>3. ASSUME pc'[Boot] = "idle", UNCHANGED <<disk, row, secrets>> PROVE Startable'
  BY <1>1, <1>3 DEF Startable, Kept, setting, disk, Local
<1>4. CASE Crash
  BY <1>3, <1>4 DEF Crash, table
<1>5. CASE UNCHANGED vars
  BY <1>2, <1>3, <1>5 DEF vars, calls, table, Startable, Up
<1>6. CASE Up /\ ~Crash /\ ~UNCHANGED vars
  <2>1. ASSUME NEW w \in Clients \cup Resets,
               OpenTemp(w) \/ WriteTemp(w) \/ RenameTemp(w) \/ Ends(w)
        PROVE  Up'
    BY <1>0, <1>6, <2>1 DEF OpenTemp, WriteTemp, RenameTemp, Ends, Finish, Up
  <2>2. ASSUME NEW c \in Clients,
               Enqueue(c) \/ ReadStore(c) \/ BeginTransaction(c) \/ Commit(c) \/ Retry(c)
        PROVE  Up'
    BY <1>0, <1>6, <2>2 DEF Enqueue, ReadStore, BeginTransaction, Commit, Retry, Up
  <2>3. ASSUME NEW r \in Resets, ResetSeeds(r) \/ Upsert(r) PROVE Up'
    BY <1>0, <1>6, <2>3 DEF ResetSeeds, Upsert, Up
  <2> QED BY <1>2, <1>6, <2>1, <2>2, <2>3, CallSteps
<1>7. CASE ~Up /\ ~Crash /\ ~UNCHANGED vars
  <2>1. pc[Boot] = "idle"
    BY <1>7 DEF Startable, Up
  <2>2. ~(OpenTemp(Boot) \/ WriteTemp(Boot) \/ RenameTemp(Boot) \/ CreateRow)
    BY <2>1 DEF OpenTemp, WriteTemp, RenameTemp, CreateRow
  <2>3. ~(BootSeeds \/ BootMigrates \/ BootFails)
    BY <1>0, <2>1
    DEF Startable, BootSeeds, BootMigrates, BootFails, ReadsLocal, Kept, Readable
  <2>4. CASE BootFindsRow
    BY <1>0, <1>2, <2>4 DEF BootFindsRow, Startable, Kept, Readable, Up
  <2>5. CASE BootResumes
    <3>1. engine = "json"
      BY <1>0, <2>1, <2>5 DEF BootResumes, ReadsLocal, Startable
    <3> QED BY <1>0, <1>2, <2>5, <3>1 DEF BootResumes, Up
  <2> QED BY <1>0, <1>7, <2>2, <2>3, <2>4, <2>5, StartSteps
<1> QED BY <1>4, <1>5, <1>6, <1>7

\* A store that was up is started again after every crash, whatever was on its way,
\* unless the keys in the environment are invalid.
THEOREM StoreRestartSucceeds == Spec => RestartSucceeds
<1>1. StoreInv /\ Up /\ ~overlap /\ environment # "invalid" => Startable
  <2> SUFFICES ASSUME StoreInv, Up, ~overlap, environment # "invalid" PROVE Startable
    OBVIOUS
  <2>1. Keys /\ Calls /\ engine \in {"json", "postgres"}
    BY DEF StoreInv, StoreTypeOK
  <2> QED BY <2>1 DEF Keys, LocalKeys, JsonKeys, RowKeys, Calls, Up, Startable
<1>2. StoreInv /\ ~overlap /\ [Next]_vars => ~overlap'
  BY SettingKept DEF setting
<1>3. Startable => pc[Boot] # "error"
  BY DEF Startable
<1>4. Spec => [](Up /\ ~overlap /\ environment # "invalid" => [](pc[Boot] # "error"))
  BY <1>1, <1>2, <1>3, StartableStep, StoreInvariant, PTL DEF Spec
<1> QED BY <1>4 DEF RestartSucceeds

-----------------------------------------------------------------------------
(* The serial store.                                                       *)

\* The steps of the serial store, in terms of this one.
LEMMA SerialStutters ==
    ASSUME ~overlap, ~overlap', Stored'.generation = Stored.generation,
           Stored'.updates = Stored.updates, \A c \in Clients : StatusOf(c)' = StatusOf(c)
    PROVE  UNCHANGED Serial!serial
BY DEF Serial!serial

LEMMA SerialApplies ==
    ASSUME ~overlap, ~overlap', NEW c \in Clients,
           StatusOf(c) = "open", StatusOf(c)' = "applied",
           \A d \in Clients \ {c} : StatusOf(d)' = StatusOf(d),
           Stored'.generation = Stored.generation, Stored'.updates = Append(Stored.updates, c)
    PROVE  Serial!SerialNext
<1> DEFINE old == [generation |-> Stored.generation, updates |-> Stored.updates]
           new == [generation |-> Stored'.generation, updates |-> Stored'.updates]
<1>1. Serial!Apply(c)
  <2>1. new = [old EXCEPT !.updates = Append(@, c)]
    <3> DEFINE g == Stored.generation
               before == Stored.updates
               after == Append(Stored.updates, c)
    <3>1. old = [generation |-> g, updates |-> before]
      OBVIOUS
    <3>2. new = [generation |-> g, updates |-> after]
      OBVIOUS
    <3>3. after = Append(before, c)
      OBVIOUS
    <3> HIDE DEF old, new, g, before, after
    <3>4. old.updates = before
      BY <3>1
    <3>5. [old EXCEPT !.updates = after] = [generation |-> g, updates |-> after]
      BY <3>1
    <3>6. [old EXCEPT !.updates = Append(@, c)] = [old EXCEPT !.updates = after]
      BY <3>3, <3>4
    <3> QED BY <3>2, <3>5, <3>6
  <2>2. [d \in Clients |-> StatusOf(d)'] = [[d \in Clients |-> StatusOf(d)] EXCEPT ![c] = "applied"]
    OBVIOUS
  <2> QED BY <2>1, <2>2 DEF Serial!Apply
<1> QED BY <1>1 DEF Serial!SerialNext

LEMMA SerialResolves ==
    ASSUME ~overlap, ~overlap', NEW c \in Clients,
           StatusOf(c) = "applied", StatusOf(c)' = "ok",
           \A d \in Clients \ {c} : StatusOf(d)' = StatusOf(d),
           Stored' = Stored
    PROVE  Serial!SerialNext
<1>1. Serial!Resolve(c)
  BY DEF Serial!Resolve
<1> QED BY <1>1 DEF Serial!SerialNext

LEMMA SerialFails ==
    ASSUME ~overlap, ~overlap', NEW gone \in SUBSET Clients,
           \A c \in gone : StatusOf(c) \in {"open", "applied"} /\ StatusOf(c)' = "failed",
           \A c \in Clients \ gone : StatusOf(c)' = StatusOf(c),
           Stored' = Stored
    PROVE  Serial!SerialNext
<1>1. Serial!Fail(gone)
  BY DEF Serial!Fail
<1> QED BY <1>1 DEF Serial!SerialNext

LEMMA SerialReplaces ==
    ASSUME ~overlap, ~overlap', NEW generation \in 1..MaxGenerations,
           generation > Stored.generation,
           Stored'.generation = generation, Stored'.updates = <<>>,
           \A c \in Clients : StatusOf(c)' = StatusOf(c)
    PROVE  Serial!SerialNext
<1>1. Serial!Replace(generation)
  BY DEF Serial!Replace
<1> QED BY <1>1 DEF Serial!SerialNext

\* The first start finds no updates; without a row there is no database yet.
LEMMA SerialStarts == Init => Serial!SerialInit
<1> SUFFICES ASSUME Init PROVE Serial!SerialInit
  OBVIOUS
<1>1. \A c \in Clients : StatusOf(c) = "open"
  BY ConstantTypes DEF Init, StatusOf
<1>2. StoreTypeOK /\ Keys
  BY TypesInit, KeysInit
<1>3. Stored.updates = <<>>
  <2>1. CASE engine = "json"
    <3>1. PICK local \in Situations :
              /\ file = IF local.exists THEN 1 ELSE NoInode
              /\ content = [i \in Inodes |-> IF i = 1 THEN local.database ELSE Unreadable]
      BY DEF Init
    <3>2. local.database.updates = <<>>
      BY StoreAssumption, DatabaseFields
    <3> QED BY <2>1, <3>1, <3>2, ConstantTypes, DatabaseFields DEF Stored, Local
  <2>2. CASE engine # "json"
    <3>1. PICK local \in Situations : row = local.row
      BY DEF Init
    <3>2. row.updates = <<>>
      BY <3>1, StoreAssumption, DatabaseFields
    <3> QED BY <2>2, <3>2 DEF Stored
  <2> QED BY <2>1, <2>2
<1>4. Stored.generation \in 0..MaxGenerations
  BY <1>2, LocalTyped DEF Stored, StoreTypeOK, Database
<1>5. 0 \in 0..MaxGenerations
  BY ConstantTypes
<1> QED BY <1>1, <1>3, <1>4, <1>5 DEF Serial!SerialInit

\* Steps of init: seeding replaces the database, everything else leaves it.
LEMMA StartImplements ==
    ASSUME StoreInv, ~overlap, ~Up, [Next]_vars
    PROVE  Serial!SerialNext \/ UNCHANGED Serial!serial
<1> USE ConstantTypes, DatabaseFields
<1> DEFINE Step == Serial!SerialNext \/ UNCHANGED Serial!serial
<1>0. /\ StoreTypeOK /\ Calls /\ Exclusive /\ BootDraft /\ LocalKeys
      /\ engine = "postgres" => RowKeys
      /\ pc \in [Writers -> Busy \cup {"idle", "ok", "error", "lost"}]
      /\ draft \in [Writers -> Database] /\ Local \in Database
      /\ secrets \in 0..MaxGenerations /\ engine \in {"json", "postgres"}
      /\ engine' = engine /\ ~overlap'
  BY LocalTyped, SettingKept DEF StoreInv, Drafts, Keys, StoreTypeOK, setting
<1>1. \A w \in Clients \cup Resets : pc[w] \notin Busy
  BY <1>0, BootAlone
<1>2. ASSUME \A c \in Clients : pc'[c] = pc[c] PROVE \A c \in Clients : StatusOf(c)' = StatusOf(c)
  BY <1>2 DEF StatusOf
<1>3. ASSUME \A c \in Clients : pc'[c] = pc[c], Stored' = Stored PROVE Step
  BY <1>0, <1>2, <1>3, SerialStutters
<1>4. CASE OpenTemp(Boot) \/ WriteTemp(Boot)
  <2>1. Stored' = Stored
    BY <1>0, <1>4, OpenTempEffect, WriteTempEffect DEF Exclusive, OpenTemp, WriteTemp, table, Stored
  <2> QED BY <1>0, <1>3, <1>4, <2>1 DEF OpenTemp, WriteTemp
<1>5. CASE RenameTemp(Boot)
  <2>1. /\ Local' = draft[Boot] /\ row' = row /\ pc[Boot] = "rename"
        /\ \A c \in Clients : pc'[c] = pc[c]
    BY <1>0, <1>5, RenameTempEffect DEF RenameTemp, table
  <2>2. CASE engine = "postgres"
    BY <1>0, <1>3, <2>1, <2>2 DEF Stored
  <2>3. CASE engine = "json" /\ file = NoInode /\ secrets # 0 /\ draft[Boot] = Seed(secrets)
    <3>1. Stored.generation = 0 /\ Stored'.generation = secrets /\ Stored'.updates = <<>>
      BY <1>0, <2>1, <2>3 DEF Stored, Local
    <3>2. secrets \in 1..MaxGenerations
      BY <1>0, <2>3
    <3>3. secrets > Stored.generation
      BY <3>1, <3>2
    <3> QED BY <1>0, <1>2, <2>1, <3>1, <3>2, <3>3, SerialReplaces
  <2>4. CASE engine = "json" /\ draft[Boot] = [Local EXCEPT !.schema = 6]
    <3>1. Stored'.generation = Stored.generation /\ Stored'.updates = Stored.updates
      BY <1>0, <2>1, <2>4 DEF Stored
    <3> QED BY <1>0, <1>2, <2>1, <3>1, SerialStutters
  <2> QED BY <1>0, <2>1, <2>2, <2>3, <2>4 DEF BootDraft, InFile
<1>6. ASSUME UNCHANGED <<disk, table>>, \A c \in Clients : pc'[c] = pc[c] PROVE Step
  BY <1>0, <1>3, <1>6, StoredKept DEF table
<1>7. CASE BootFindsRow \/ BootSeeds \/ BootResumes \/ BootMigrates
  BY <1>0, <1>6, <1>7 DEF BootFindsRow, BootSeeds, BootResumes, BootMigrates
<1>8. CASE BootFails
  BY <1>0, <1>6, <1>8 DEF BootFails
<1>9. CASE CreateRow
  <2>1. /\ pc[Boot] = "create" /\ row' = draft[Boot] /\ \A c \in Clients : pc'[c] = pc[c]
    BY <1>0, <1>9 DEF CreateRow, Finish
  <2>2. engine = "postgres" /\ row = Unreadable /\ Local.updates = <<>>
    BY <1>0, <2>1 DEF Calls, RowKeys, InFile
  <2>3. \/ secrets # 0 /\ draft[Boot] = Seed(secrets)
        \/ Local # Unreadable /\ draft[Boot] = Local
    BY <1>0, <2>1 DEF BootDraft
  <2>4. draft[Boot].updates = <<>> /\ draft[Boot].generation \in 1..MaxGenerations
    <3>1. CASE secrets # 0 /\ draft[Boot] = Seed(secrets)
      BY <1>0, <3>1
    <3>2. CASE Local # Unreadable /\ draft[Boot] = Local
      BY <1>0, <2>2, <3>2 DEF LocalKeys, Database
    <3> QED BY <2>3, <3>1, <3>2
  <2>5. Stored.generation = 0 /\ Stored' = draft[Boot]
    BY <1>0, <2>1, <2>2 DEF Stored
  <2>6. draft[Boot].generation > Stored.generation
    BY <2>4, <2>5
  <2> QED BY <1>0, <1>2, <2>1, <2>4, <2>5, <2>6, SerialReplaces
<1>10. CASE Crash
  <2>1. \A c \in Clients : pc'[c] = pc[c]
    BY <1>0, <1>1, <1>10 DEF Crash
  <2> QED BY <1>6, <1>10, <2>1 DEF Crash
<1>11. CASE UNCHANGED vars
  BY <1>6, <1>11 DEF vars, calls
<1> QED
  BY <1>0, <1>4, <1>5, <1>7, <1>8, <1>9, <1>10, <1>11, StartSteps

\* Steps of the callers: the rename or the COMMIT applies an update or replaces the
\* database, the answer resolves it, an error or a crash before that fails it.
LEMMA CallsImplement ==
    ASSUME StoreInv, ~overlap, Up, [Next]_vars
    PROVE  Serial!SerialNext \/ UNCHANGED Serial!serial
<1> USE ConstantTypes, DatabaseFields DEF InFile
<1> DEFINE Step == Serial!SerialNext \/ UNCHANGED Serial!serial
<1>0. /\ StoreTypeOK /\ Calls /\ Exclusive /\ ClientDrafts /\ ResetDrafts
      /\ pc \in [Writers -> Busy \cup {"idle", "ok", "error", "lost"}]
      /\ draft \in [Writers -> Database] /\ Local \in Database /\ row \in Database
      /\ secrets \in 0..MaxGenerations /\ engine \in {"json", "postgres"}
      /\ engine' = engine /\ ~overlap'
  BY LocalTyped, SettingKept DEF StoreInv, Drafts, StoreTypeOK, setting
<1>1. ASSUME \A c \in Clients : StatusOf(c)' = StatusOf(c), Stored' = Stored PROVE Step
  BY <1>0, <1>1, SerialStutters
<1>2. ASSUME NEW r \in Resets, UNCHANGED secrets, draft[r] = Seed(secrets),
             Stored.generation < secrets, Stored' = draft[r],
             \A c \in Clients : pc'[c] = pc[c]
      PROVE  Step
  <2>1. Stored.generation \in Nat
    BY <1>0 DEF Stored, Database
  <2>2. secrets \in 1..MaxGenerations /\ secrets > Stored.generation
    BY <1>0, <1>2, <2>1
  <2>3. \A c \in Clients : StatusOf(c)' = StatusOf(c)
    BY <1>2 DEF StatusOf
  <2> QED BY <1>0, <1>2, <2>2, <2>3, SerialReplaces
<1>3. ASSUME NEW c \in Clients, pc[c] \in {"rename", "commit"}, pc' = [pc EXCEPT ![c] = "applied"],
             draft[c] = Amended(Stored, c), Stored' = draft[c]
      PROVE  Step
  <2>1. Stored \in Database
    BY <1>0 DEF Stored
  <2>2. StatusOf(c) = "open" /\ StatusOf(c)' = "applied"
    BY <1>0, <1>3 DEF StatusOf
  <2>3. \A d \in Clients \ {c} : StatusOf(d)' = StatusOf(d)
    BY <1>0, <1>3 DEF StatusOf
  <2>4. /\ Stored'.generation = Stored.generation
        /\ Stored'.updates = Append(Stored.updates, c)
    BY <1>3, <2>1
  <2> QED BY <1>0, <2>2, <2>3, <2>4, SerialApplies
<1>4. ASSUME NEW w \in Clients \cup Resets, OpenTemp(w) \/ WriteTemp(w) PROVE Step
  <2>1. Stored' = Stored
    BY <1>0, <1>4, OpenTempEffect, WriteTempEffect DEF Exclusive, OpenTemp, WriteTemp, table, Stored
  <2>2. \A c \in Clients : StatusOf(c)' = StatusOf(c)
    BY <1>0, <1>4 DEF OpenTemp, WriteTemp, StatusOf
  <2> QED BY <1>1, <2>1, <2>2
<1>5. ASSUME NEW w \in Clients \cup Resets, RenameTemp(w) PROVE Step
  <2>1. /\ Local' = draft[w] /\ pc[w] = "rename" /\ secrets' = secrets
        /\ pc' = [pc EXCEPT ![w] = "applied"]
    BY <1>0, <1>5, RenameTempEffect DEF RenameTemp
  <2>2. engine = "json" /\ Stored = Local /\ Stored' = draft[w]
    BY <1>0, <2>1 DEF Calls, Stored
  <2>3. CASE w \in Clients
    BY <1>0, <1>3, <2>1, <2>2, <2>3 DEF ClientDrafts, InFile
  <2>4. CASE w \in Resets
    <3>1. draft[w] = Seed(secrets) /\ Stored.generation < secrets
      BY <1>0, <2>1, <2>4 DEF ResetDrafts, InFile
    <3>2. \A c \in Clients : pc'[c] = pc[c]
      BY <1>0, <2>1, <2>4
    <3> QED BY <1>2, <2>1, <2>2, <2>4, <3>1, <3>2
  <2> QED BY <2>3, <2>4
<1>6. ASSUME NEW w \in Clients \cup Resets, Ends(w) PROVE Step
  <2>1. Stored' = Stored
    BY <1>6, StoredKept DEF Ends, setting, table
  <2>2. PICK result \in {"ok", "error"} :
            Finish(w, result) /\ (result = "ok" => pc[w] = "applied")
    BY <1>6 DEF Ends
  <2>3. pc' = [pc EXCEPT ![w] = result] /\ pc[w] \in Busy
    BY <1>6, <2>2 DEF Finish, Ends
  <2>4. \A c \in Clients \ {w} : StatusOf(c)' = StatusOf(c)
    BY <1>0, <2>3 DEF StatusOf
  <2>5. CASE w \in Resets
    BY <1>1, <2>1, <2>4, <2>5
  <2>6. CASE w \in Clients /\ result = "ok"
    <3>1. StatusOf(w) = "applied" /\ StatusOf(w)' = "ok"
      BY <1>0, <2>2, <2>3, <2>6 DEF StatusOf
    <3> QED BY <1>0, <2>1, <2>4, <2>6, <3>1, SerialResolves
  <2>7. CASE w \in Clients /\ result = "error"
    <3>1. StatusOf(w) \in {"open", "applied"} /\ StatusOf(w)' = "failed"
      BY <1>0, <2>3, <2>7 DEF StatusOf, Busy
    <3>2. Serial!SerialNext
      <4> DEFINE gone == {w}
      <4>1. gone \in SUBSET Clients
        BY <2>7
      <4>2. \A c \in gone : StatusOf(c) \in {"open", "applied"} /\ StatusOf(c)' = "failed"
        BY <3>1
      <4>3. \A c \in Clients \ gone : StatusOf(c)' = StatusOf(c)
        BY <2>4
      <4> HIDE DEF gone
      <4> QED BY <1>0, <2>1, <4>1, <4>2, <4>3, SerialFails
    <3> QED BY <3>2
  <2> QED BY <2>2, <2>5, <2>6, <2>7
<1>7. ASSUME NEW c \in Clients, Enqueue(c) \/ ReadStore(c) \/ BeginTransaction(c) \/ Retry(c)
      PROVE  Step
  <2>1. Stored' = Stored
    BY <1>7, StoredKept DEF Enqueue, ReadStore, BeginTransaction, Retry, setting, table
  <2>2. \A d \in Clients : StatusOf(d)' = StatusOf(d)
    BY <1>0, <1>7 DEF Enqueue, ReadStore, BeginTransaction, Retry, CanStart, StatusOf
  <2> QED BY <1>1, <2>1, <2>2
<1>8. ASSUME NEW c \in Clients, Commit(c) PROVE Step
  <2>1. engine = "postgres" /\ Stored = row /\ Stored' = draft[c]
    BY <1>0, <1>8 DEF Commit, Calls, Stored
  <2>2. /\ pc[c] = "commit" /\ pc' = [pc EXCEPT ![c] = "applied"]
        /\ draft[c] = Amended(row, c)
    BY <1>0, <1>8 DEF Commit, ClientDrafts
  <2> QED BY <1>3, <2>1, <2>2
<1>9. ASSUME NEW r \in Resets, ResetSeeds(r) PROVE Step
  <2>1. Stored' = Stored
    BY <1>9, StoredKept DEF ResetSeeds, setting, table
  <2>2. \A c \in Clients : StatusOf(c)' = StatusOf(c)
    BY <1>0, <1>9 DEF ResetSeeds, StatusOf
  <2> QED BY <1>1, <2>1, <2>2
<1>10. ASSUME NEW r \in Resets, Upsert(r) PROVE Step
  <2>1. engine = "postgres" /\ Stored' = draft[r]
    BY <1>0, <1>10 DEF Upsert, Calls, Stored
  <2>2. \A c \in Clients : pc'[c] = pc[c]
    BY <1>0, <1>10 DEF Upsert
  <2> QED BY <1>0, <1>2, <1>10, <2>1, <2>2 DEF Upsert, ResetDrafts
<1>11. CASE Crash
  <2> DEFINE gone == {c \in Clients : pc[c] \in Busy}
  <2>1. Stored' = Stored
    BY <1>11, StoredKept DEF Crash, setting, table
  <2>2. \A c \in gone : StatusOf(c) \in {"open", "applied"} /\ StatusOf(c)' = "failed"
    BY <1>0, <1>11 DEF Crash, StatusOf, Busy
  <2>3. \A c \in Clients \ gone : StatusOf(c)' = StatusOf(c)
    BY <1>0, <1>11 DEF Crash, StatusOf
  <2>4. gone \in SUBSET Clients
    OBVIOUS
  <2> HIDE DEF gone
  <2> QED BY <1>0, <2>1, <2>2, <2>3, <2>4, SerialFails
<1>12. CASE UNCHANGED vars
  <2>1. Stored' = Stored
    BY <1>12, StoredKept DEF vars, setting, table
  <2> QED BY <1>1, <1>12, <2>1 DEF vars, calls, StatusOf
<1> QED
  BY <1>4, <1>5, <1>6, <1>7, <1>8, <1>9, <1>10, <1>11, <1>12, CallSteps

\* Both engines implement the serial store the handlers are written for: an update is
\* applied once, to what its predecessors left, or not at all; a reset replaces the
\* whole database.
THEOREM StoreImplementsSerialStore == Spec => ImplementsSerialStore
<1>1. StoreInv /\ [Next]_vars => [Serial!SerialNext]_(Serial!serial)
  <2> SUFFICES ASSUME StoreInv, [Next]_vars
               PROVE  Serial!SerialNext \/ UNCHANGED Serial!serial
    OBVIOUS
  <2>1. CASE overlap
    <3>1. overlap'
      BY <2>1, SettingKept DEF setting
    <3> QED BY <2>1, <3>1 DEF Serial!serial
  <2>2. CASE ~overlap
    BY <2>2, StartImplements, CallsImplement
  <2> QED BY <2>1, <2>2
<1>2. Spec => Serial!SerialSpec
  BY <1>1, SerialStarts, StoreInvariant, PTL DEF Spec, Serial!SerialSpec
<1> QED BY <1>2 DEF ImplementsSerialStore
=============================================================================
