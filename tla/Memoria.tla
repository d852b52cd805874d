------------------------------ MODULE Memoria ------------------------------
(***************************************************************************)
(* The memory of an agent at work: src/memoria/memoria.go, scheduler.go    *)
(* and the processors' batches.  A process reads the session files and the *)
(* knowledge files, keeps what the model makes of them, and remembers by   *)
(* the hash of its content what it has processed.                          *)
(*                                                                         *)
(* A gateway (or `memory serve`) runs the initial scan and the scheduler's *)
(* two loops side by side; `memory init` runs one scan and ends, `memory   *)
(* process` takes one source.  Memoria.Close is reached by the two         *)
(* commands only: a gateway's memory ends when its process is killed, at   *)
(* any step.                                                               *)
(*                                                                         *)
(* Times are left out: edit counts the modifications of a source, and      *)
(* changed has for each loop the sources modified since its lastScan.      *)
(***************************************************************************)
EXTENDS MemoryStore

CONSTANTS
  Chats, Files,      \* session files and knowledge files
  Log, Key,          \* what is said in a session, and its key
  Lengths,           \* how many messages of it are written at a time
  Texts, LinesOf,    \* contents of a knowledge file, and the lengths of their lines
  Calls,             \* searches
  Setups             \* what there is, see setup

ASSUME SetupsAssumption ==
  \A s \in Setups : /\ s.sources \subseteq Chats \cup Files /\ s.told \subseteq Halls /\ s.kinds \subseteq GenericKinds
                   /\ s.forms \subseteq {"nothing", "summary", "chunk"} /\ s.databases \subseteq BOOLEAN /\ s.edits \in Nat /\ s.boots \in Nat

Sources == Chats \cup Files
LogBodies == UNION {{Log[s][i].body : i \in DOMAIN Log[s]} : s \in Chats}

ASSUME SourcesAssumption ==
  /\ IsFiniteSet(Sources) /\ Chats \cap Files = {} /\ Blank \notin Sources
  /\ Lengths \subseteq Nat /\ Lengths # {} /\ Texts # {}
  /\ \A s \in Chats : /\ Log[s] \in Seq([role : STRING, calls : BOOLEAN, body : LogBodies])
                      /\ \A n \in Lengths : n <= Len(Log[s])
  /\ \A t \in Texts : LinesOf[t] \in Seq(Nat)

(* Keys are cut at every "_", so that no part has one: who has the name of *)
(* another or of another's account has the same files.                     *)
People == {Who(Key[s]) : s \in Chats} \cup {FileUser}

ASSUME OwnersAssumption ==
  \A who, other \in People : who.user \in {other.user, OwnerOf(other)} => OwnerOf(who) = OwnerOf(other)

VARIABLES
  setup,     \* the sources there are, the commands that are started, whether a
             \* database is configured and searched; bounds on the starts and the
             \* modifications of a source; the halls the model names, what it makes
             \* of a pair in the generic call, what becomes of a piece of a file;
             \* and one input of the text operators
  proc,      \* the running process: "down", "gateway", "init" or "process"
  hasDB,     \* whether it has a database
  boots,     \* how many were started
  now, edit, \* the content of each source, and its modification time
  changed,   \* what each loop's next scan finds modified
  md, l1,    \* MDStore, and the cache of the first layer
  db,        \* the database
  index, saved, \* file and session index, in memory and on the disk
  processed, \* Scheduler.processedFiles
  at,        \* where each scanner is
  finder,    \* where a search of the agent's memory tool is
  made,      \* how many sources were processed, for the IDs
  kept, gone, spoiled, latest \* histories, see the properties

vars == <<setup, proc, hasDB, boots, now, edit, changed, md, l1, db, index, saved,
          processed, at, finder, made, kept, gone, spoiled, latest>>

Scanners == {"initial", "chats", "files"}
NotDone == Blank
SourcesOf(kind) == setup.sources \cap (IF kind = "chat" THEN Chats ELSE Files)
SameKind(x) == IF x \in Chats THEN Chats ELSE Files

(* A scanner: its step ("off", "idle", "walk", "work", "ask"), the kind of *)
(* sources, those it takes for modified, the snapshots to check, those     *)
(* that are being extracted, and the memories it has in hand.              *)
Scanner(pc, kind, busy) ==
  [pc |-> pc, kind |-> kind, since |-> {}, todo |-> <<>>, busy |-> busy, hand |-> <<>>]

Off == [p \in Scanners |-> Scanner("off", IF p = "chats" THEN "chat" ELSE "file", {})]

Snapshot(x) == [src |-> x, content |-> now[x], edit |-> edit[x]]
Holds(q, x) ==
  \/ \E k \in DOMAIN at[q].todo : at[q].todo[k].src = x
  \/ \E b \in at[q].busy : b.src = x
  \/ \E k \in DOMAIN at[q].hand : at[q].hand[k].src = x

InitScan ==
  /\ proc = "down" /\ hasDB = FALSE /\ boots = 0
  /\ now = [x \in Sources |-> IF x \in Chats THEN Min(Lengths) ELSE CHOOSE t \in Texts : TRUE]
  /\ edit = [x \in Sources |-> 0]
  /\ changed = [p \in {"chats", "files"} |-> {}]
  /\ md = [files |-> << >>, cache |-> << >>] /\ l1 = <<>> /\ db = [docs |-> {}, vecs |-> {}]
  /\ index = [x \in Sources |-> NotDone] /\ saved = index
  /\ processed = [x \in Files |-> -1]
  /\ at = Off /\ finder = "idle" /\ made = 0
  /\ kept = {} /\ gone = {} /\ spoiled = {} /\ latest = << >>

Init == setup \in Setups /\ InitScan

-----------------------------------------------------------------------------
(* The world around: sessions grow, files are rewritten.                   *)
Edit(x) ==
  /\ x \in setup.sources /\ edit[x] < setup.edits
  /\ \E c \in (IF x \in Chats THEN {n \in Lengths : n > now[x]} ELSE Texts \ {now[x]}) :
       now' = [now EXCEPT ![x] = c]
  /\ edit' = [edit EXCEPT ![x] = @ + 1]
  /\ changed' = [p \in DOMAIN changed |-> IF x \in SourcesOf(at[p].kind) THEN changed[p] \cup {x} ELSE changed[p]]
  /\ UNCHANGED <<setup, proc, hasDB, boots, md, l1, db, index, saved, processed, at, finder, made,
                 kept, gone, spoiled, latest>>

(* Start: the initial scan and the loops; `memory init`: one scan; `memory *)
(* process`: one source is processed unasked.                              *)
GatewayScanners == [p \in Scanners |-> Scanner(IF p = "initial" THEN "walk" ELSE "idle", Off[p].kind, {})]
InitScanners == [Off EXCEPT !["initial"].pc = "walk"]
ProcessScanners(x) ==
  [Off EXCEPT !["initial"] = Scanner("work", IF x \in Chats THEN "chat" ELSE "file", {Snapshot(x)})]

(* `memory process` has no database, the others have the one that is       *)
(* configured.                                                             *)
Configured(command) == IF command = "process" THEN {FALSE} ELSE setup.databases

(* New, SetChatModel and Start, or one of the commands.  Only Start fills  *)
(* the cache of the first layer.                                           *)
Boot(command) ==
  /\ proc = "down" /\ boots < setup.boots /\ command \in setup.commands
  /\ proc' = command /\ boots' = boots + 1
  /\ hasDB' \in Configured(command)
  /\ md' = [md EXCEPT !.cache = LoadCache(md.files, boots + 1)]
  /\ l1' = IF command = "gateway" THEN LoadL1(md'.cache) ELSE <<>>
  /\ index' = saved
  /\ processed' = [x \in Files |-> -1]
  /\ changed' = [p \in DOMAIN changed |-> {}]
  /\ at' \in (CASE command = "gateway" -> {GatewayScanners}
                [] command = "init" -> {InitScanners}
                [] OTHER -> {ProcessScanners(x) : x \in setup.sources})
  /\ spoiled' = IF command = "process" THEN spoiled \cup {x \in Sources : Holds("initial", x)'} ELSE spoiled
  /\ UNCHANGED <<setup, now, edit, db, saved, finder, made, kept, gone, latest>>

-----------------------------------------------------------------------------
(* The scans.  A loop sets lastScan before it looks at the files.          *)
Tick(p) ==
  /\ at[p].pc = "idle" /\ SourcesOf(at[p].kind) # {}
  /\ at' = [at EXCEPT ![p].pc = "walk", ![p].since = changed[p]]
  /\ changed' = [changed EXCEPT ![p] = {}]
  /\ UNCHANGED <<setup, proc, hasDB, boots, now, edit, md, l1, db, index, saved, processed, finder, made,
                 kept, gone, spoiled, latest>>

(* ScanSessions, ScanModifiedFiles: what was modified, in the initial scan *)
(* all.                                                                    *)
Modified(p) == IF p = "initial" THEN SourcesOf(at[p].kind) ELSE at[p].since \cup changed[p]

(* processFiles: files it has had are left out.                            *)
Unseen(p, xs) == IF p = "files" THEN {x \in xs : edit[x] > processed[x]} ELSE xs

(* Mutant: the time of the scan is taken when it is over.                  *)
WalkThenTick(p) ==
  LET taken == Unseen(p, IF p = "initial" THEN SourcesOf(at[p].kind) ELSE at[p].since)
  IN /\ at[p].pc = "walk"
     /\ at' = [at EXCEPT ![p].pc = "work", ![p].since = {},
                         ![p].todo = SetToSeq({Snapshot(x) : x \in taken})]
     /\ changed' = [q \in DOMAIN changed |-> IF q = p THEN {} ELSE changed[q]]
     /\ processed' = IF p = "files" THEN [x \in Files |-> IF x \in taken THEN edit[x] ELSE processed[x]]
                     ELSE processed
     /\ UNCHANGED <<setup, proc, hasDB, boots, now, edit, md, l1, db, index, saved, finder, made,
                    kept, gone, spoiled, latest>>

(* A snapshot of each of them.                                             *)
Walk(p) ==
  LET taken == Unseen(p, Modified(p))
  IN /\ at[p].pc = "walk"
     /\ at' = [at EXCEPT ![p].pc = "work", ![p].since = {},
                         ![p].todo = SetToSeq({Snapshot(x) : x \in taken})]
     /\ processed' = IF p = "files" THEN [x \in Files |-> IF x \in taken THEN edit[x] ELSE processed[x]]
                     ELSE processed
     /\ UNCHANGED <<setup, proc, hasDB, boots, now, edit, changed, md, l1, db, index, saved, finder, made,
                    kept, gone, spoiled, latest>>

(* cleanup forgets what was processed a day ago.                           *)
Cleanup ==
  /\ proc = "gateway"
  /\ \E x \in Files : processed[x] # -1 /\ processed' = [processed EXCEPT ![x] = -1]
  /\ UNCHANGED <<setup, proc, hasDB, boots, now, edit, changed, md, l1, db, index, saved, at, finder, made,
                 kept, gone, spoiled, latest>>

(* NeedsProcessing; MarkProcessed; and Save, of the whole index of a kind. *)
Due(x) == index[x.src] # x.content
Marked(x) == [index EXCEPT ![x.src] = x.content]
SavedWith(x) == [y \in Sources |-> IF y \in SameKind(x.src) THEN Marked(x)[y] ELSE saved[y]]

(* processBatchParallel, the loop: unless the index has the content, what  *)
(* is known of a file is deleted, in memory also from the index, and the   *)
(* source is given to a goroutine.                                         *)
Check(p) ==
  /\ at[p].pc = "work" /\ at[p].todo # <<>>
  /\ LET x == Head(at[p].todo)
         due == Due(x)
         others == \E q \in Scanners \ {p} : Holds(q, x.src)
     IN /\ at' = [at EXCEPT ![p].todo = Tail(@), ![p].busy = IF due THEN @ \cup {x} ELSE @]
        /\ md' = IF due /\ x.src \in Files THEN DeleteFile(md, x.src) ELSE md
        /\ index' = IF due /\ x.src \in Files THEN [index EXCEPT ![x.src] = NotDone] ELSE index
        /\ spoiled' = IF ~due THEN spoiled
                      ELSE IF others THEN spoiled \cup {x.src}
                      ELSE IF x.edit = edit[x.src] THEN spoiled \ {x.src} ELSE spoiled
  /\ UNCHANGED <<setup, proc, hasDB, boots, now, edit, changed, l1, db, saved, processed, finder, made,
                 kept, gone, latest>>

(* What the model may answer.  processQABatch: one call for all pairs, or  *)
(* after an error a call for each, and after an error there the generic    *)
(* one.                                                                    *)
PairReplies == [way : {"failed"}, hall : {Blank}, layer : {0}]
               \cup [way : {"single"}, hall : setup.told \cup {Blank}, layer : {0}]
               \cup {[way |-> "generic", hall |-> k.hall, layer |-> k.layer] : k \in setup.kinds}

PairItems(pair, reply, src, who) ==
  CASE reply.way = "single" -> SingleItems(pair, [empty |-> reply.hall = Blank, hall |-> reply.hall], src, who)
    [] reply.way = "generic" -> GenericItems(pair, reply, src, who)
    [] OTHER -> <<>>

SessionPairs == [s \in Chats |-> [n \in Lengths |-> Pairs(SubSeq(Log[s], 1, n))]]

ChatItems(x, who) ==
  LET pairs == SessionPairs[x.src][x.content]
      AsTold(halls) == [i \in DOMAIN pairs |-> [qa |-> i, empty |-> halls[i] = Blank, hall |-> halls[i]]]
  IN {BatchItems(pairs, AsTold(halls), x.src, who) : halls \in [DOMAIN pairs -> setup.told \cup {Blank}]}
     \cup {FlattenSeq([i \in DOMAIN pairs |-> PairItems(pairs[i], replies[i], x.src, who)]) :
             replies \in [DOMAIN pairs -> PairReplies]}

Extracts(x) ==
  LET who == IF proc = "process" THEN FileUser ELSE Who(Key[x.src]) IN
    IF x.src \in Chats THEN ChatItems(x, who)
    ELSE {FileItems(x.src, x.content, forms) : forms \in [DOMAIN ChunksOf(LinesOf[x.content]) -> setup.forms]}

(* Process in a goroutine, and the source is marked, whatever the model    *)
(* said, and the whole index of its kind saved.  `memory process` marks    *)
(* nothing.                                                                *)
Extract(p) ==
  /\ at[p].pc = "work"
  /\ \E x \in at[p].busy : \E items \in Extracts(x) :
       LET new == [k \in DOMAIN items |-> [items[k] EXCEPT !.id = <<made + 1, k, x.src>>]] IN
         /\ at' = [at EXCEPT ![p].busy = @ \ {x}, ![p].hand = @ \o new]
         /\ kept' = kept \cup {new[k].id : k \in {k \in DOMAIN new :
                        ~new[k].file /\ new[k].layer = 2 /\ (p = "initial" => Accepted(new[k], hasDB))}}
         /\ index' = IF proc = "process" THEN index ELSE Marked(x)
         /\ saved' = IF proc = "process" THEN saved ELSE SavedWith(x)
  /\ made' = made + 1
  /\ UNCHANGED <<setup, proc, hasDB, boots, now, edit, changed, md, l1, db, processed, finder,
                 gone, spoiled, latest>>

Worked(p) == at[p].pc = "work" /\ at[p].todo = <<>> /\ at[p].busy = {}

-----------------------------------------------------------------------------
(* Storing.  The loops write Markdown only, all memories of the scan at    *)
(* once.                                                                   *)
LastOf(items, path) == items[Max({k \in DOMAIN items : Path(items[k]) = path})].text
L1Paths(items) == {Path(items[k]) : k \in {k \in DOMAIN items : items[k].layer = 1}}

InOrder(items, order) == FlattenSeq([k \in DOMAIN order |-> Group(items, order[k])])
Noting(items) ==
  [path \in DOMAIN latest \cup L1Paths(items) |->
     IF path \in L1Paths(items) THEN LastOf(items, path) ELSE latest[path]]

StoreBatch(p) ==
  /\ p # "initial" /\ Worked(p)
  /\ \E order \in SetToAllKPermutations(Groups(at[p].hand)) :
       /\ Len(order) = Cardinality(Groups(at[p].hand))
       /\ md' = StoreInOrder(md, at[p].hand, order)
       /\ latest' = Noting(InOrder(at[p].hand, order))
  /\ at' = [at EXCEPT ![p].pc = "idle", ![p].hand = <<>>]
  /\ UNCHANGED <<setup, proc, hasDB, boots, now, edit, changed, l1, db, index, saved, processed, finder, made,
                 kept, gone, spoiled>>

(* The initial scan and the commands add one memory after the other; the   *)
(* layer takes it or returns an error that is logged.  A database is asked *)
(* for its write lock first.                                               *)
ForDB(item) == hasDB /\ item.layer # 1 /\ Accepted(item, hasDB)

Ask ==
  /\ Worked("initial") /\ at["initial"].hand # <<>> /\ ForDB(Head(at["initial"].hand))
  /\ at' = [at EXCEPT !["initial"].pc = "ask"]
  /\ UNCHANGED <<setup, proc, hasDB, boots, now, edit, changed, md, l1, db, index, saved, processed, finder, made,
                 kept, gone, spoiled, latest>>

Searching == finder \in {"vector", "outer", "inner"}

(* SQLiteVectorStore.Add, with the embedding made under the lock, then     *)
(* MDStore.                                                                *)
AddStored ==
  /\ at["initial"].pc = "ask" /\ ~Searching
  /\ LET item == Head(at["initial"].hand) IN
       \E embedded \in BOOLEAN :
         /\ db' = AddDocument(db, item, embedded)
         /\ md' = StoreOne([md EXCEPT !.files = Appended(@, item, embedded)], item)
  /\ at' = [at EXCEPT !["initial"].pc = "work", !["initial"].hand = Tail(@)]
  /\ UNCHANGED <<setup, proc, hasDB, boots, now, edit, changed, l1, index, saved, processed, finder, made,
                 kept, gone, spoiled, latest>>

AddMemory ==
  /\ Worked("initial") /\ at["initial"].hand # <<>>
  /\ LET item == Head(at["initial"].hand)
         added == AddL1(md, l1, item)
     IN /\ ~ForDB(item)
        /\ CASE ~Accepted(item, hasDB) -> UNCHANGED <<md, l1, latest>>
             [] Accepted(item, hasDB) /\ item.layer = 1 -> md' = added.md /\ l1' = added.l1 /\ latest' = Noting(<<item>>)
             [] OTHER -> md' = StoreOne(md, item) /\ UNCHANGED <<l1, latest>>
  /\ at' = [at EXCEPT !["initial"].hand = Tail(@)]
  /\ UNCHANGED <<setup, proc, hasDB, boots, now, edit, changed, db, index, saved, processed, finder, made,
                 kept, gone, spoiled>>

(* The initial scan goes on with the sessions; a command ends in Close,    *)
(* which saves both indexes.                                               *)
Finish ==
  /\ Worked("initial") /\ at["initial"].hand = <<>>
  /\ LET more == proc # "process" /\ at["initial"].kind = "file" IN
       /\ at' = IF more THEN [at EXCEPT !["initial"] = Scanner("walk", "chat", {})]
                ELSE IF proc = "gateway" THEN [at EXCEPT !["initial"].pc = "off"] ELSE Off
       /\ proc' = IF more \/ proc = "gateway" THEN proc ELSE "down"
       /\ saved' = IF proc' = "down" THEN index ELSE saved
  /\ UNCHANGED <<setup, hasDB, boots, now, edit, changed, md, l1, db, index, processed, finder, made,
                 kept, gone, spoiled, latest>>

-----------------------------------------------------------------------------
(* Memoria.Search: the vector search has the database's read lock; the     *)
(* keyword search has it twice, in KeywordSearch and in ftsSearch.  A      *)
(* writer that waits keeps new readers out.                                *)
StartSearch ==
  /\ proc = "gateway" /\ hasDB /\ setup.searched /\ finder = "idle"
  /\ finder' = "query"
  /\ UNCHANGED <<setup, proc, hasDB, boots, now, edit, changed, md, l1, db, index, saved, processed, at, made,
                 kept, gone, spoiled, latest>>

Waiting == at["initial"].pc = "ask"

(* Mutant: the vector search takes its read lock twice as well.            *)
SearchStepTwice ==
  /\ \/ finder = "query" /\ ~Waiting /\ finder' = "vector"
     \/ finder = "vector" /\ ~Waiting /\ finder' \in {"idle", "few"}
     \/ finder = "few" /\ ~Waiting /\ finder' = "outer"
     \/ finder = "outer" /\ ~Waiting /\ finder' = "inner"
     \/ finder = "inner" /\ finder' = "idle"
  /\ UNCHANGED <<setup, proc, hasDB, boots, now, edit, changed, md, l1, db, index, saved, processed, at, made,
                 kept, gone, spoiled, latest>>

SearchStep ==
  /\ \/ finder = "query" /\ ~Waiting /\ finder' = "vector"
     \/ finder = "vector" /\ finder' \in {"idle", "few"}
     \/ finder = "few" /\ ~Waiting /\ finder' = "outer"
     \/ finder = "outer" /\ ~Waiting /\ finder' = "inner"
     \/ finder = "inner" /\ finder' = "idle"
  /\ UNCHANGED <<setup, proc, hasDB, boots, now, edit, changed, md, l1, db, index, saved, processed, at, made,
                 kept, gone, spoiled, latest>>

-----------------------------------------------------------------------------
(* The process is killed.  A batch may be half written, and a file that    *)
(* was being written is empty: a Markdown file, or the index a goroutine   *)
(* saves.                                                                  *)
Torn(path) == [md.files EXCEPT ![path] = <<>>]
HalfWritten(p) ==
  IF p # "initial" /\ Worked(p)
  THEN {StoreInOrder(md, at[p].hand, order).files : order \in SetToAllKPermutations(Groups(at[p].hand))}
  ELSE {}
BeingWritten ==
  {path \in DOMAIN md.files : \E p \in Scanners : (Worked(p) \/ at[p].pc = "ask") /\
     \E k \in DOMAIN at[p].hand : (p = "initial" => k = 1) /\ Path(at[p].hand[k]) = path}
TornIndex(kind) == [x \in Sources |-> IF x \in SourcesOf(kind) THEN NotDone ELSE saved[x]]

Kill ==
  /\ proc # "down"
  /\ \E files \in {md.files} \cup (UNION {HalfWritten(p) : p \in Scanners}) \cup {Torn(p) : p \in BeingWritten} :
       LET torn == {p \in DOMAIN md.files : md.files[p] # <<>> /\ files[p] = <<>>} IN
       /\ md' = [md EXCEPT !.files = files]
       /\ gone' = gone \cup (UNION {IdsIn(at[p].hand) : p \in Scanners})
                       \cup (UNION {IdsIn(md.files[p]) : p \in torn})
       /\ latest' = Restrict(latest, DOMAIN latest \ torn)
       /\ spoiled' = spoiled \cup {x \in Files : \E p \in Scanners : Holds(p, x)}
                             \cup {x \in Files : torn \cap FilesOf(x) # {}}
  /\ saved' \in {saved} \cup {TornIndex(at[p].kind) : p \in {q \in Scanners : at[q].pc = "work" /\ at[q].busy # {}
                                                                     /\ proc # "process"}}
  /\ proc' = "down" /\ at' = Off /\ finder' = "idle"
  /\ UNCHANGED <<setup, hasDB, boots, now, edit, changed, l1, db, index, processed, made, kept>>

-----------------------------------------------------------------------------
Next ==
  \/ \E x \in Sources : Edit(x)
  \/ \E c \in {"gateway", "init", "process"} : Boot(c)
  \/ \E p \in {"chats", "files"} : Tick(p) \/ StoreBatch(p)
  \/ \E p \in Scanners : Walk(p) \/ Check(p) \/ Extract(p)
  \/ Cleanup \/ Ask \/ AddStored \/ AddMemory \/ Finish
  \/ StartSearch \/ SearchStep
  \/ Kill

Spec == Init /\ [][Next]_vars

(* A scanner goes on: its goroutines run and the model's calls return.     *)
Step(p) ==
  \/ Walk(p) \/ Check(p) \/ Extract(p) \/ StoreBatch(p)
  \/ p = "initial" /\ (Ask \/ AddStored \/ AddMemory \/ Finish)

CanStep(p) == at[p].pc \in {"walk", "work"} \/ (at[p].pc = "ask" /\ ~Searching)

(* For a step, weak fairness with ENABLED Step(p) written out: CanStep(p). *)
Fairness ==
  /\ \A p \in {"chats", "files"} : WF_vars(Tick(p))
  /\ \A p \in Scanners : []<>~CanStep(p) \/ []<><<Step(p)>>_vars
  /\ WF_vars(SearchStep)

FairSpec == Spec /\ Fairness
-----------------------------------------------------------------------------
(* Type correctness.  Memories keep the name of a source, a user or an     *)
(* account; a memory that is read again from the first layer has an ID of  *)
(* its own, see Parsed.                                                    *)
Words == Texts \cup LogBodies \cup {Blank}

(* Texts have a similarity to a query and a rating.  A limit that makes no *)
(* sense is replaced before a search (Memoria.Search, memory search), and  *)
(* "chat" is a source type.                                                *)
ASSUME SearchAssumption ==
  /\ Near \in [Words -> Int] /\ Match \in [Words -> Nat] /\ DefaultLimit \in Nat \ {0} /\ Blank # "chat"
  /\ \A call \in Calls : call.tool \notin {"history", "rag"} => call.limit \in Nat \ {0}

Owners == {Who(Key[s]).user : s \in Chats} \cup {Who(Key[s]).acct : s \in Chats} \cup {DefaultUser, Blank} \cup Sources
ChatDirs == {"l2/discoveries", "l2/events"}
PrefDirs == {"l1/preferences", "l1/facts"}
Dirs == ChatDirs \cup PrefDirs \cup {"l3", "files/l3", "files/discoveries"}
Paths == Dirs \X Owners
IDs == (Nat \X Nat \X Sources) \cup (Nat \X Nat \X Dirs \X Owners)
Forms == {"summary", "raw", "chunk", "nothing", "cut"}
Memories ==
  {m \in [id : IDs, layer : Layers, hall : Halls, file : BOOLEAN, src : Sources \cup {"preferences"},
          user : Owners, acct : Owners, text : Words, form : Forms] :
     m.file => m.src \in Files /\ m.layer # 1}
Contents(x) == IF x \in Chats THEN Lengths ELSE Texts
Snapshots == {b \in [src : Sources, content : Lengths \cup Texts, edit : Nat] : b.content \in Contents(b.src)}

IsDisk(fs) ==
  /\ DOMAIN fs \subseteq Paths /\ IsFiniteSet(DOMAIN fs)
  /\ fs \in [DOMAIN fs -> Seq(Memories)]

WorldOK ==
  /\ setup \in Setups
  /\ now \in [Sources -> Lengths \cup Texts] /\ \A x \in Sources : now[x] \in Contents(x)
  /\ edit \in [Sources -> 0..setup.edits]
  /\ changed \in [{"chats", "files"} -> SUBSET Sources]
  /\ spoiled \subseteq Sources

StoreOK ==
  /\ md = [files |-> md.files, cache |-> md.cache] /\ IsDisk(md.files) /\ IsDisk(md.cache)
  /\ DOMAIN md.cache \subseteq DOMAIN md.files
  /\ l1 \in Seq(Memories)
  /\ db = [docs |-> db.docs, vecs |-> db.vecs]
  /\ db.docs \subseteq Memories /\ IsFiniteSet(db.docs) /\ db.vecs \subseteq {d.id : d \in db.docs}
  /\ kept \subseteq IDs /\ gone \subseteq IDs
  /\ DOMAIN latest \subseteq Paths /\ latest \in [DOMAIN latest -> Words]

IndexOK ==
  /\ index \in [Sources -> Lengths \cup Texts \cup {NotDone}]
  /\ saved \in [Sources -> Lengths \cup Texts \cup {NotDone}]
  /\ processed \in [Files -> Int]

ScanOK ==
  /\ proc \in {"down", "gateway", "init", "process"} /\ hasDB \in BOOLEAN
  /\ boots \in 0..setup.boots /\ made \in Nat
  /\ finder \in {"idle", "query", "vector", "few", "outer", "inner"}
  /\ at \in [Scanners -> [pc : {"off", "idle", "walk", "work", "ask"}, kind : {"chat", "file"},
                          since : SUBSET Sources, todo : Seq(Snapshots), busy : SUBSET Snapshots,
                          hand : Seq(Memories)]]
  /\ proc = "down" => at = Off
  /\ \A p \in {"chats", "files"} : /\ at[p].kind = Off[p].kind
                                   /\ proc # "gateway" => at[p] = Off[p]
                                   /\ at[p].pc # "ask" /\ changed[p] \subseteq SourcesOf(at[p].kind)
  /\ at["initial"].pc = "ask" => hasDB /\ at["initial"].hand # <<>>

TypeOK == WorldOK /\ StoreOK /\ IndexOK /\ ScanOK

(* Texts are cut right: the pairs found in a session are its questions     *)
(* with the assistant's last word to each (extractQAPairs); the raw text   *)
(* of a pair is kept only with a summary of the same pair                  *)
(* (ProcessChatBatchContent); and the pieces of a file are the file        *)
(* (chunkContent).                                                         *)
TextRight ==
  LET pairs == Pairs(setup.sample.session)
      items == BatchItems(pairs, setup.sample.entries, "chat", FileUser)
  IN /\ pairs = PairsMeant(setup.sample.session)
     /\ \A k \in DOMAIN items : items[k].layer = 3 =>
          \E j \in DOMAIN items : items[j].layer # 3 /\ items[j].text = items[k].text
     /\ ChunksRight(setup.sample.lines)

(* A chat's summary that a scan has made is in its hands or on the disk,   *)
(* unless a kill came while it was in hand or while its file was written:  *)
(* appending, restarting and merging lose none (processBatchParallel,      *)
(* StoreBatch, loadCache, mergeItems).                                     *)
KeepsChat ==
  kept \subseteq gone \cup (UNION {IdsIn(at[p].hand) : p \in Scanners})
                      \cup (UNION {IdsIn(md.files[path]) : path \in DOMAIN md.files})

(* The Markdown of a knowledge file is about one content of it, the one    *)
(* the index says was processed, when no scanner has it; unless two        *)
(* scanners had it at once or a kill cut its processing short (Check,      *)
(* MarkFileProcessed, DeleteFileMemories).                                 *)
FileFresh ==
  proc = "gateway" =>
    \A f \in Files \ spoiled : index[f] # NotDone /\ (\A p \in Scanners : ~Holds(p, f)) =>
      \A path \in FilesOf(f) \cap DOMAIN md.files :
        \A k \in DOMAIN md.files[path] : md.files[path][k].text = index[f]

(* The preference an account's L1 file got last is in it, the file that is *)
(* part of the agent's prompt: compaction and restarts drop older ones     *)
(* only (Compact, compactSimple, loadCache, Delete).                       *)
LatestPreference ==
  \A path \in DOMAIN latest : path[1] = "l1/preferences" =>
    \E k \in DOMAIN md.files[path] : md.files[path][k].text = latest[path]

(* A search shows no more than was asked for, only what is of the user and *)
(* source type that was asked for, nothing twice, and the history tool,    *)
(* when the query is embedded and there is room for all of them, every     *)
(* memory of a chat that has a vector and fits.  Of any age: the time      *)
(* range, which the tool and the command promise to observe, does not come *)
(* as far as the database (Memoria.Search).                                *)
SearchRight ==
  \A call \in Calls, embedded \in BOOLEAN :
    LET opts == OptsOf(call)
        hits == Answer(db, call, embedded)
        Doc(h) == CHOOSE d \in db.docs : d.id = h.id
    IN /\ Cardinality(hits) <= opts.limit
       /\ \A h \in hits : (\E d \in db.docs : d.id = h.id) /\ Fits(Doc(h), opts)
       /\ \A h, g \in hits : h.id = g.id => h = g
       /\ call.tool = "history" /\ embedded /\ Cardinality(db.docs) <= opts.limit =>
            \A d \in db.docs : Fits(d, opts) /\ d.id \in db.vecs => \E h \in hits : h.id = d.id

(* A search ends, unless the initial scan asked for the write lock between *)
(* the two read locks of the keyword search: then both wait for ever       *)
(* (KeywordSearch, ftsSearch, Add).                                        *)
Locked == finder = "outer" /\ Waiting
SearchEnds == []<>(finder = "idle" \/ Locked)

(* A gateway that is not killed catches up with what was written last,     *)
(* with every session and every file, unless two scanners had it at once.  *)
Stale(x) == index[x] # now[x]
CatchesUp ==
  <>[](proc = "gateway" /\ ~Locked) =>
    []<>(\A x \in setup.sources : Stale(x) => x \in spoiled)
=============================================================================
