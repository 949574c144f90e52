----------------------------- MODULE StateStore -----------------------------
(***************************************************************************)
(* The two engines behind ProofrailStore.  JsonStore (backend/src/store.ts)*)
(* keeps the database in store.json: updates wait in a promise queue, and  *)
(* a write fills a temporary file of fixed name and renames it.            *)
(* PostgresStateStore (postgres-store.ts) keeps it in one row and lets a   *)
(* transaction commit when the revision is still the one it read.  Both    *)
(* keep the signing secrets in a file of their own.  The process may die   *)
(* at any await and is started again.                                      *)
(*                                                                         *)
(* Who signs reads the keys with readSigningSecrets, which prefers those   *)
(* of PROOFRAIL_SIGNING_SECRETS_JSON; seeds and resets write the file.     *)
(*                                                                         *)
(* A database is the generation of its identities and the updates applied  *)
(* to it; schema 0 is a file that is no JSON.  Files are inodes: a writer  *)
(* keeps writing to the inode it opened, whatever its name is by then.     *)
(***************************************************************************)
EXTENDS Naturals, Sequences

CONSTANTS
    Clients, Resets, \* calls of store.update and of store.reset
    Boot,            \* store.init, which also writes
    MaxAttempts,     \* MAX_UPDATE_ATTEMPTS
    Situations,      \* what the first start finds: files, row and environment, and
                     \* whether callers may reset beside other calls
    MaxCrashes, MaxGenerations, MaxInodes

Writers == Clients \cup Resets \cup {Boot}

Database  == [schema : {0, 3, 4, 5, 6}, generation : 0..MaxGenerations, updates : Seq(Clients)]
Unreadable == [schema |-> 0, generation |-> 0, updates |-> <<>>]
Seed(g)    == [schema |-> 6, generation |-> g, updates |-> <<>>]

ASSUME StoreAssumption ==
    /\ Boot \notin Clients \cup Resets /\ Clients \cap Resets = {}
    /\ MaxAttempts \in Nat \ {0} /\ MaxCrashes \in Nat /\ MaxGenerations \in Nat \ {0}
    /\ MaxInodes \in Nat \ {0}
    /\ Situations \subseteq [overlap : BOOLEAN, limited : BOOLEAN,
                           environment : {"absent", "keys", "invalid"}, exists : BOOLEAN,
                           database : Database, row : Database, secrets : 0..MaxGenerations]
    \* The last process did not stop inside a reset; it counts its updates anew.  A row
    \* is found by a process whose local store is gone.
    /\ \A local \in Situations :
          /\ ~local.exists => local.database = Unreadable
          /\ local.database # Unreadable =>
                /\ local.database.schema # 0 /\ local.database.generation # 0
                /\ local.database.updates = <<>>
                /\ local.secrets \in {0, local.database.generation}
          /\ local.row # Unreadable =>
                /\ local.row.generation # 0 /\ local.row.updates = <<>>
                /\ local.database = Unreadable
                /\ local.secrets \in {0, local.row.generation}

VARIABLES
    engine, overlap,  \* PROOFRAIL_STORE, and what callers do (fixed)
    limited,          \* PROOFRAIL_PUBLIC_API_MODE (fixed)
    environment,      \* PROOFRAIL_SIGNING_SECRETS_JSON (fixed)
    pc,
    draft,            \* the database a writer is about to write
    fd,               \* the inode it has open
    seen, attempts,   \* the revision a transaction read, and how often it ran
    queue,            \* JsonStore.queue
    content,          \* of the inodes
    file, temp,       \* the inodes of store.json and store.json.tmp-<pid>
    secrets,          \* the generation of signing-secrets.json
    row, revision,    \* ProofrailState; generation 0: no row
    generations,      \* identities generated so far
    crashes

setting == <<engine, overlap, limited, environment>>
calls   == <<pc, draft, fd, seen, attempts, queue>>
disk    == <<content, file, temp>>
table   == <<row, revision>>
vars    == <<setting, calls, disk, secrets, table, generations, crashes>>

NoInode == 0
Inodes  == 1..MaxInodes
Busy    == {"queued", "open", "write", "rename", "commit", "retry", "upsert", "create", "applied"}

StoreTypeOK ==
    /\ engine \in {"json", "postgres"} /\ overlap \in BOOLEAN
    /\ limited \in BOOLEAN /\ environment \in {"absent", "keys", "invalid"}
    /\ pc \in [Writers -> Busy \cup {"idle", "ok", "error", "lost"}]
    /\ draft \in [Writers -> Database]
    /\ fd \in [Writers -> Inodes \cup {NoInode}]
    /\ seen \in [Clients -> Nat] /\ attempts \in [Clients -> 0..MaxAttempts]
    /\ queue \in Seq(Clients)
    /\ content \in [Inodes -> Database]
    /\ {file, temp} \subseteq Inodes \cup {NoInode}
    /\ secrets \in 0..MaxGenerations
    /\ row \in Database /\ revision \in Nat
    /\ generations \in 0..MaxGenerations /\ crashes \in 0..MaxCrashes

\* The server has not started yet.
Init ==
    /\ engine \in {"json", "postgres"}
    /\ pc = [w \in Writers |-> "idle"]
    /\ draft = [w \in Writers |-> Unreadable]
    /\ fd = [w \in Writers |-> NoInode]
    /\ seen = [c \in Clients |-> 0] /\ attempts = [c \in Clients |-> 0]
    /\ queue = <<>>
    /\ \E local \in Situations :
          /\ overlap = local.overlap /\ limited = local.limited
          /\ environment = local.environment
          /\ file = IF local.exists THEN 1 ELSE NoInode
          /\ content = [i \in Inodes |-> IF i = 1 THEN local.database ELSE Unreadable]
          /\ secrets = local.secrets
          /\ row = local.row
          /\ generations = IF local.database # Unreadable THEN local.database.generation
                           ELSE IF local.row # Unreadable THEN local.row.generation
                           ELSE local.secrets
    /\ temp = NoInode /\ revision = 0
    /\ crashes = 0

-----------------------------------------------------------------------------
Up == pc[Boot] = "ok"

\* The caller's part: nobody resets while another call runs that a reset may clash
\* with.  A row with a revision leaves only other resets.
Clash(v, w) == \/ v \in Resets /\ w \in Resets
               \/ engine = "json" /\ (v \in Resets \/ w \in Resets)
CanStart(w) ==
    /\ Up /\ pc[w] = "idle"
    /\ overlap \/ \A v \in Writers \ {w} : pc[v] \in Busy => ~Clash(v, w)

AtHead(w) == queue # <<>> /\ Head(queue) = w

\* The call ends; the queue goes on after a rejection too.
MutFinish(w, result) ==
    /\ pc' = [pc EXCEPT ![w] = result]
    /\ draft' = [draft EXCEPT ![w] = Unreadable]
    /\ fd' = [fd EXCEPT ![w] = NoInode]
    /\ queue' = IF result = "ok" /\ AtHead(w) THEN Tail(queue) ELSE queue
    /\ IF w \in Clients
       THEN seen' = [seen EXCEPT ![w] = 0] /\ attempts' = [attempts EXCEPT ![w] = 0]
       ELSE UNCHANGED <<seen, attempts>>
Finish(w, result) ==
    /\ pc' = [pc EXCEPT ![w] = result]
    /\ draft' = [draft EXCEPT ![w] = Unreadable]
    /\ fd' = [fd EXCEPT ![w] = NoInode]
    /\ queue' = IF AtHead(w) THEN Tail(queue) ELSE queue
    /\ IF w \in Clients
       THEN seen' = [seen EXCEPT ![w] = 0] /\ attempts' = [attempts EXCEPT ![w] = 0]
       ELSE UNCHANGED <<seen, attempts>>

\* writeFile opens with O_TRUNC.
OpenTemp(w) ==
    LET free  == Inodes \ ({file} \cup {fd[v] : v \in Writers})
        inode == IF temp = NoInode THEN CHOOSE i \in free : TRUE ELSE temp
    IN  /\ pc[w] = "open"
        /\ temp = NoInode => free # {}
        /\ temp' = inode
        /\ content' = [content EXCEPT ![inode] = Unreadable]
        /\ fd' = [fd EXCEPT ![w] = inode]
        /\ pc' = [pc EXCEPT ![w] = "write"]
        /\ UNCHANGED <<setting, draft, seen, attempts, queue, file, secrets, table, generations,
                       crashes>>

\* The bytes of another writer of the inode may remain behind those of w.
WriteTemp(w) ==
    /\ pc[w] = "write"
    /\ \E result \in {draft[w]} \cup
            (IF \/ content[fd[w]] # Unreadable
                \/ \E v \in Writers \ {w} : fd[v] = fd[w]
             THEN {Unreadable} ELSE {}) :
          content' = [content EXCEPT ![fd[w]] = result]
    /\ pc' = [pc EXCEPT ![w] = "rename"]
    /\ UNCHANGED <<setting, draft, fd, seen, attempts, queue, file, temp, secrets, table,
                   generations, crashes>>

RenameTemp(w) ==
    /\ pc[w] = "rename" /\ temp # NoInode
    /\ file' = temp /\ temp' = NoInode
    /\ fd' = [fd EXCEPT ![w] = NoInode]
    /\ pc' = [pc EXCEPT ![w] = "applied"]
    /\ UNCHANGED <<setting, draft, seen, attempts, queue, content, secrets, table, generations,
                   crashes>>

\* Another writer has renamed it.
RenameFails(w) ==
    /\ pc[w] = "rename" /\ temp = NoInode
    /\ Finish(w, "error")
    /\ UNCHANGED <<setting, disk, secrets, table, generations, crashes>>

Return(w) ==
    /\ pc[w] = "applied" /\ w # Boot
    /\ Finish(w, "ok")
    /\ UNCHANGED <<setting, disk, secrets, table, generations, crashes>>

\* The mutator, the file system or the database throws; of a COMMIT that was applied
\* only the answer is lost.
Throws(w) ==
    /\ w # Boot
    /\ pc[w] \in {"open", "write", "rename", "commit", "upsert"}
                   \cup (IF engine = "postgres" THEN {"applied"} ELSE {})
    /\ Finish(w, "error")
    /\ UNCHANGED <<setting, disk, secrets, table, generations, crashes>>

-----------------------------------------------------------------------------
(* JsonStore.update.                                                       *)

Enqueue(c) ==
    /\ engine = "json" /\ CanStart(c)
    /\ pc' = [pc EXCEPT ![c] = "queued"]
    /\ queue' = Append(queue, c)
    /\ UNCHANGED <<setting, draft, fd, seen, attempts, disk, secrets, table, generations, crashes>>

\* read and mutator.
ReadStore(c) ==
    /\ pc[c] = "queued" /\ AtHead(c)
    /\ content[file] # Unreadable
    /\ draft' = [draft EXCEPT ![c] = [content[file] EXCEPT !.updates = Append(@, c)]]
    /\ pc' = [pc EXCEPT ![c] = "open"]
    /\ UNCHANGED <<setting, fd, seen, attempts, queue, disk, secrets, table, generations, crashes>>

ReadFails(c) ==
    /\ pc[c] = "queued" /\ AtHead(c)
    /\ content[file] = Unreadable
    /\ Finish(c, "error")
    /\ UNCHANGED <<setting, disk, secrets, table, generations, crashes>>

-----------------------------------------------------------------------------
(* PostgresStateStore.update.                                              *)

BeginTransaction(c) ==
    /\ engine = "postgres"
    /\ CanStart(c) \/ pc[c] = "retry"
    /\ seen' = [seen EXCEPT ![c] = revision]
    /\ attempts' = [attempts EXCEPT ![c] = @ + 1]
    /\ draft' = [draft EXCEPT ![c] = [row EXCEPT !.updates = Append(@, c)]]
    /\ pc' = [pc EXCEPT ![c] = "commit"]
    /\ UNCHANGED <<setting, fd, queue, disk, secrets, table, generations, crashes>>

\* updateMany locks the row until COMMIT, so the comparison still holds there.
Commit(c) ==
    /\ pc[c] = "commit" /\ revision = seen[c]
    /\ row' = draft[c] /\ revision' = revision + 1
    /\ pc' = [pc EXCEPT ![c] = "applied"]
    /\ UNCHANGED <<setting, draft, fd, seen, attempts, queue, disk, secrets, generations, crashes>>

MutRetry(c) ==
    /\ pc[c] = "commit" /\ revision # seen[c]
    /\ pc' = [pc EXCEPT ![c] = "retry"]
    /\ UNCHANGED <<setting, draft, fd, seen, attempts, queue, disk, secrets, table, generations,
                   crashes>>
Retry(c) ==
    /\ pc[c] = "commit" /\ revision # seen[c]
    /\ attempts[c] < MaxAttempts
    /\ pc' = [pc EXCEPT ![c] = "retry"]
    /\ UNCHANGED <<setting, draft, fd, seen, attempts, queue, disk, secrets, table, generations,
                   crashes>>

Exhausted(c) ==
    /\ pc[c] = "commit" /\ revision # seen[c]
    /\ attempts[c] = MaxAttempts
    /\ Finish(c, "error")
    /\ UNCHANGED <<setting, disk, secrets, table, generations, crashes>>

-----------------------------------------------------------------------------
(* reset: identities are generated, their secrets written, then the        *)
(* database, beside the queue.                                             *)

MutResetSeeds(r) ==
    /\ CanStart(r)
    /\ generations < MaxGenerations
    /\ generations' = generations + 1
    /\ draft' = [draft EXCEPT ![r] = Seed(generations')]
    /\ pc' = [pc EXCEPT ![r] = IF engine = "json" THEN "open" ELSE "upsert"]
    /\ UNCHANGED <<setting, fd, seen, attempts, queue, disk, secrets, table, crashes>>
ResetSeeds(r) ==
    /\ CanStart(r)
    /\ generations < MaxGenerations
    /\ generations' = generations + 1
    /\ secrets' = generations'
    /\ draft' = [draft EXCEPT ![r] = Seed(generations')]
    /\ pc' = [pc EXCEPT ![r] = IF engine = "json" THEN "open" ELSE "upsert"]
    /\ UNCHANGED <<setting, fd, seen, attempts, queue, disk, table, crashes>>

MutUpsertKeepsRevision(r) ==
    /\ pc[r] = "upsert"
    /\ row' = draft[r]
    /\ pc' = [pc EXCEPT ![r] = "applied"]
    /\ UNCHANGED <<setting, draft, fd, seen, attempts, queue, disk, secrets, revision, generations,
                   crashes>>
Upsert(r) ==
    /\ pc[r] = "upsert"
    /\ row' = draft[r] /\ revision' = revision + 1
    /\ pc' = [pc EXCEPT ![r] = "applied"]
    /\ UNCHANGED <<setting, draft, fd, seen, attempts, queue, disk, secrets, generations, crashes>>

-----------------------------------------------------------------------------
(* init.                                                                   *)

Local == IF file = NoInode THEN Unreadable ELSE content[file]

\* readSigningSecrets returns: keys in the environment need no file, and an invalid
\* value there is an error whatever the file holds.
Readable == environment = "keys" \/ (environment = "absent" /\ secrets # 0)

\* With a row init only wants the secrets, and a limited public API not even those.
BootFindsRow ==
    /\ pc[Boot] = "idle" /\ engine = "postgres" /\ row # Unreadable
    /\ pc' = [pc EXCEPT ![Boot] = IF limited \/ Readable THEN "ok" ELSE "error"]
    /\ UNCHANGED <<setting, draft, fd, seen, attempts, queue, disk, secrets, table, generations,
                   crashes>>

ReadsLocal == pc[Boot] = "idle" /\ (engine = "json" \/ row = Unreadable)

\* There is no store.json: secrets, then database.  The file is written also when the
\* environment has keys, which are not those of the seed.
BootSeeds ==
    /\ ReadsLocal /\ file = NoInode
    /\ generations < MaxGenerations
    /\ generations' = generations + 1 /\ secrets' = generations'
    /\ draft' = [draft EXCEPT ![Boot] = Seed(generations')]
    /\ pc' = [pc EXCEPT ![Boot] = "open"]
    /\ UNCHANGED <<setting, fd, seen, attempts, queue, disk, table, crashes>>

\* Schema 6.  The local store seeds a row that is missing.
BootResumes ==
    /\ \/ ReadsLocal /\ Local.schema = 6 /\ Readable
       \/ pc[Boot] = "applied"
    /\ draft' = [draft EXCEPT ![Boot] = IF engine = "json" THEN Unreadable ELSE Local]
    /\ pc' = [pc EXCEPT ![Boot] = IF engine = "json" THEN "ok" ELSE "create"]
    /\ UNCHANGED <<setting, fd, seen, attempts, queue, disk, secrets, table, generations, crashes>>

\* migrateV3 moves the private keys of a version 3 store to the secrets first.
MutBootMigrates ==
    /\ ReadsLocal /\ Local.schema \in {3, 4, 5}
    /\ IF Local.schema = 3 THEN UNCHANGED secrets
                           ELSE Readable /\ UNCHANGED secrets
    /\ draft' = [draft EXCEPT ![Boot] = [Local EXCEPT !.schema = 6]]
    /\ pc' = [pc EXCEPT ![Boot] = "open"]
    /\ UNCHANGED <<setting, fd, seen, attempts, queue, disk, table, generations, crashes>>
BootMigrates ==
    /\ ReadsLocal /\ Local.schema \in {3, 4, 5}
    /\ IF Local.schema = 3 THEN secrets' = Local.generation
                           ELSE Readable /\ UNCHANGED secrets
    /\ draft' = [draft EXCEPT ![Boot] = [Local EXCEPT !.schema = 6]]
    /\ pc' = [pc EXCEPT ![Boot] = "open"]
    /\ UNCHANGED <<setting, fd, seen, attempts, queue, disk, table, generations, crashes>>

\* No JSON, no readable secrets, or a failing write.  The JSON engine refuses to start; without
\* a row the other one goes on with new identities (loadLocalSeed).
BootFails ==
    /\ \/ ReadsLocal /\ file # NoInode /\ Local.schema # 3 /\ (Local = Unreadable \/ ~Readable)
       \/ pc[Boot] \in {"open", "write", "rename"}
    /\ fd' = [fd EXCEPT ![Boot] = NoInode]
    /\ IF engine = "json"
       THEN /\ pc' = [pc EXCEPT ![Boot] = "error"]
            /\ UNCHANGED <<draft, secrets, generations>>
       ELSE /\ generations < MaxGenerations
            /\ generations' = generations + 1 /\ secrets' = generations'
            /\ draft' = [draft EXCEPT ![Boot] = Seed(generations')]
            /\ pc' = [pc EXCEPT ![Boot] = "create"]
    /\ UNCHANGED <<setting, seen, attempts, queue, disk, table, crashes>>

CreateRow ==
    /\ pc[Boot] = "create"
    /\ row' = draft[Boot] /\ revision' = 0
    /\ Finish(Boot, "ok")
    /\ UNCHANGED <<setting, disk, secrets, generations, crashes>>

\* Calls and transactions of the process are gone; files stay as they are.
Crash ==
    /\ crashes < MaxCrashes
    /\ crashes' = crashes + 1
    /\ pc' = [w \in Writers |-> IF w = Boot THEN "idle"
                                ELSE IF pc[w] \in Busy THEN "lost" ELSE pc[w]]
    /\ fd' = [w \in Writers |-> NoInode]
    /\ queue' = <<>>
    /\ draft' = [w \in Writers |-> Unreadable]
    /\ seen' = [c \in Clients |-> 0] /\ attempts' = [c \in Clients |-> 0]
    /\ UNCHANGED <<setting, disk, secrets, table, generations>>

-----------------------------------------------------------------------------
Write(w)  == \/ OpenTemp(w) \/ WriteTemp(w) \/ RenameTemp(w) \/ RenameFails(w)
             \/ Return(w) \/ Throws(w)
Update(c) == \/ ReadStore(c) \/ ReadFails(c) \/ Commit(c) \/ Retry(c) \/ Exhausted(c)
             \/ pc[c] = "retry" /\ BeginTransaction(c)
Start     == \/ BootFindsRow \/ BootSeeds \/ BootResumes \/ BootMigrates \/ BootFails \/ CreateRow
             \/ OpenTemp(Boot) \/ WriteTemp(Boot) \/ RenameTemp(Boot)

Next ==
    \/ \E w \in Clients \cup Resets : Write(w)
    \/ \E c \in Clients : Enqueue(c) \/ BeginTransaction(c) \/ Update(c)
    \/ \E r \in Resets : ResetSeeds(r) \/ Upsert(r)
    \/ Start \/ Crash

Spec == Init /\ [][Next]_vars

\* Promises settle: a call that has begun goes on, and so does a start.
FairSpec ==
    /\ Spec
    /\ \A c \in Clients : WF_vars(Write(c) \/ Update(c))
    /\ \A r \in Resets : WF_vars(Write(r) \/ Upsert(r))
    /\ WF_vars(Start)

-----------------------------------------------------------------------------
Stored == IF engine = "json" THEN Local ELSE row

StatusOf(c) == CASE pc[c] = "applied"          -> "applied"
                 [] pc[c] = "ok"               -> "ok"
                 [] pc[c] \in {"error", "lost"} -> "failed"
                 [] OTHER                      -> "open"

\* Callers that overlap are promised nothing.
Serial == INSTANCE SerialStore WITH
    database <- IF overlap THEN [generation |-> 0, updates |-> <<>>]
                ELSE [generation |-> Stored.generation, updates |-> Stored.updates],
    status   <- [c \in Clients |-> IF overlap THEN "open" ELSE StatusOf(c)]

\* Both engines give the handlers the serial store they are written for, through
\* crashes at every await, conflicts, failing writes and, for PostgreSQL, resets
\* beside the updates.  For store.json the caller must keep resets apart.
ImplementsSerialStore == Serial!SerialSpec

\* Without keys in the environment a store that is up has stored keys, unless it found a
\* row and signs nothing.  The identities of the database are never newer than they, and
\* differ from them only while a reset runs or after one that did not finish, or when
\* a start that replaces the keys of an unusable store.json dies before it creates the
\* row and the next start takes store.json after all: no crash leaves a database whose
\* keys were never written (store.ts:349).  Keys in the environment follow no database:
\* after a reset or a seed those in use are still the ones of the variable.
KeysFollowDatabase ==
    Up /\ ~overlap /\ environment = "absent" =>
       /\ secrets # 0 \/ limited
       /\ secrets # 0 =>
             /\ Stored.generation <= secrets
             /\ \/ Stored.generation = secrets
                \/ \E r \in Resets : pc[r] \in Busy \cup {"error", "lost"}
                \/ engine = "postgres" /\ crashes > 0 /\ Stored.generation = Local.generation

\* What has started once starts again after every crash, whatever was being written,
\* migrated or seeded, if resets were kept apart (JsonStore.init refuses a store it
\* cannot read) and the environment has usable keys or none.
RestartSucceeds == [](Up /\ ~overlap /\ environment # "invalid" => [](pc[Boot] # "error"))

\* Every update gets an answer unless the process dies, also behind updates that
\* are rejected and when every attempt conflicts.
UpdatesAreAnswered ==
    \A c \in Clients : pc[c] \in Busy ~> pc[c] \in {"ok", "error", "lost"}

\* store.json is a whole database at every moment (docs/ARCHITECTURE.md:131,
\* "gravação serializada/atômica").
StoreIsWhole == Up /\ engine = "json" => Local # Unreadable
=============================================================================
