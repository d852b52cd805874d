---------------------------- MODULE MemoryStore ----------------------------
(***************************************************************************)
(* Where memories are kept: the Markdown files with their cache (MDStore), *)
(* the database of documents and vectors (SQLiteVectorStore), the three    *)
(* layers above them, and the search.  Operators on values, one for each   *)
(* operation; Memoria.tla has the state and the steps.                     *)
(*                                                                         *)
(* A Markdown file is the sequence of its items, a set of files a function *)
(* from the paths that exist.  A path is a directory and a name; the date  *)
(* in it is left out (one day), as are the backups, which are never read.  *)
(***************************************************************************)
EXTENDS MemoryText

CONSTANTS
  DefaultLimit, \* the limit of a tool's search
  Near, Match \* what a query makes of a text: the similarity of the vectors,
              \* and how well full-text search rates it (0: not found)

-----------------------------------------------------------------------------
(* Markdown files: getFilePath.  Preferences belong to the account, and to *)
(* the user if there is none.                                              *)
OwnerOf(item) == IF item.acct # Blank THEN item.acct ELSE item.user

Path(item) ==
  IF item.file THEN <<IF item.layer = 3 THEN "files/l3" ELSE "files/discoveries", item.src>>
  ELSE CASE item.layer = 1 -> <<IF item.hall = "preferences" THEN "l1/preferences" ELSE "l1/facts",
                                OwnerOf(item)>>
         [] item.layer = 2 -> <<IF item.hall = "discoveries" THEN "l2/discoveries" ELSE "l2/events",
                                item.user>>
         [] OTHER -> <<"l3", item.user>>

FilesOf(f) == {<<"files/l3", f>>, <<"files/discoveries", f>>}

Put(fs, path, items) == [p \in DOMAIN fs \cup {path} |-> IF p = path THEN items ELSE fs[p]]
Without(fs, paths) == Restrict(fs, DOMAIN fs \ paths)
InFile(fs, path) == IF path \in DOMAIN fs THEN fs[path] ELSE <<>>
IdsIn(items) == {items[k].id : k \in DOMAIN items}

(* mergeItems: the first of each ID.                                       *)
Merge(old, new) ==
  LET all == old \o new IN Pick(all, {k \in DOMAIN all : \A j \in 1..k - 1 : all[j].id # all[k].id})

(* groupItems: what is written together.                                   *)
GroupOf(item) == <<item.layer, item.hall, item.user, item.acct, IF item.file THEN item.src ELSE Blank>>
Groups(items) == {GroupOf(items[k]) : k \in DOMAIN items}
Group(items, key) == Pick(items, {k \in DOMAIN items : GroupOf(items[k]) = key})

(* Mutant: the file is written without what was in it.                     *)
WriteGroupAlone(md, group) ==
  LET path == Path(group[1]) IN
    [files |-> Put(md.files, path, group),
     cache |-> Put(md.cache, path, IF group[1].file THEN group ELSE InFile(md.cache, path) \o group)]

(* writeToFile and the cache after it: the file gets what was cached and   *)
(* the new items, the cache of a knowledge file only the new ones.         *)
WriteGroup(md, group) ==
  LET path == Path(group[1])  cached == InFile(md.cache, path) IN
    [files |-> Put(md.files, path, Merge(cached, group)),
     cache |-> Put(md.cache, path, IF group[1].file THEN group ELSE cached \o group)]

(* StoreBatch, with the groups in the order the map gives them.            *)
StoreInOrder(md, items, order) ==
  FoldLeft(LAMBDA acc, key : WriteGroup(acc, Group(items, key)), md, order)

StoreOne(md, item) == WriteGroup(md, <<item>>)

(* Delete: a file that has nothing else keeps the item.                    *)
DeleteItem(md, id) ==
  LET paths == {p \in DOMAIN md.cache : id \in IdsIn(md.cache[p])} IN
    IF paths = {} THEN md
    ELSE LET path == CHOOSE p \in paths : TRUE
             rest == Pick(md.cache[path], {k \in DOMAIN md.cache[path] : md.cache[path][k].id # id})
         IN [files |-> IF rest = <<>> THEN md.files ELSE Put(md.files, path, Merge(rest, rest)),
             cache |-> Put(md.cache, path, rest)]

(* Mutant: the cache keeps what is deleted on the disk.                    *)
DeleteFileOnDisk(md, f) == [md EXCEPT !.files = Without(@, FilesOf(f) \cap DOMAIN md.files)]

(* DeleteFileMemories, without the index: only files that are on the disk. *)
DeleteFile(md, f) ==
  LET paths == FilesOf(f) \cap DOMAIN md.files IN
    [files |-> Without(md.files, paths), cache |-> Without(md.cache, paths)]

(* loadCache: every directory except that of the raw chats.                *)
Readable(path) == path[1] # "l3"

(* parseMDFile at the n-th start.                                          *)
Parsed(path, items, n) ==
  IF path[1] \in {"l1/preferences", "l1/facts"}
  THEN [k \in DOMAIN items |-> RereadLine(items[k], path[2], <<n, k, path[1], path[2]>>)]
  ELSE [k \in DOMAIN items |-> Section(Unsigned(items[k]))]

LoadCache(files, n) == [p \in {q \in DOMAIN files : Readable(q)} |-> Parsed(p, files[p], n)]

-----------------------------------------------------------------------------
(* matchesFilter and Retrieve: the memories of a layer and a user, the     *)
(* newest first.                                                           *)
Matches(item, layer, user) == item.layer = layer /\ (user = Blank \/ item.user = user)

Retrieve(cache, layer, user) ==
  LET paths == SetToSeq(DOMAIN cache)
      all == FlattenSeq([k \in DOMAIN paths |-> cache[paths[k]]])
  IN Reverse(Pick(all, {k \in DOMAIN all : Matches(all[k], layer, user)}))

(* The first layer.  Initialize: what the files have.                      *)
OfUser(l1, user) == {k \in DOMAIN l1 : l1[k].user = user}
LoadL1(cache) == Retrieve(cache, 1, Blank)

(* Mutant: of all items of the user the first one stays.                   *)
CompactedOldest(md, l1, user) ==
  LET mine == Pick(l1, OfUser(l1, user)) IN
    IF Len(mine) <= 1 THEN [md |-> md, l1 |-> l1]
    ELSE [md |-> FoldLeft(LAMBDA acc, item : DeleteItem(acc, item.id), md, Tail(mine)),
          l1 |-> Append(Pick(l1, DOMAIN l1 \ OfUser(l1, user)), mine[1])]

(* Compact, compactSimple: of all items of the user only the last one      *)
(* stays.                                                                  *)
Compacted(md, l1, user) ==
  LET mine == Pick(l1, OfUser(l1, user)) IN
    IF Len(mine) <= 1 THEN [md |-> md, l1 |-> l1]
    ELSE [md |-> FoldLeft(LAMBDA acc, item : DeleteItem(acc, item.id), md, Front(mine)),
          l1 |-> Append(Pick(l1, DOMAIN l1 \ OfUser(l1, user)), Last(mine))]

(* L1FactsLayer.Add.                                                       *)
AddL1(md, l1, item) == Compacted(StoreOne(md, item), Append(l1, item), item.user)

(* What the layers take: L1 only preferences, L2 no preferences, L3 only   *)
(* with a database.                                                        *)
Accepted(item, hasDB) ==
  CASE item.layer = 1 -> item.hall = "preferences"
    [] item.layer = 2 -> item.hall # "preferences"
    [] OTHER -> hasDB

-----------------------------------------------------------------------------
(* The database: an empty text is skipped; writeL2MDFile appends the item  *)
(* to its Markdown file behind MDStore's back, unless embedding failed     *)
(* before.                                                                 *)
Skipped(item) == item.text = Blank

AddDocument(db, item, embedded) ==
  IF Skipped(item) THEN db
  ELSE [docs |-> db.docs \cup {item}, vecs |-> IF embedded THEN db.vecs \cup {item.id} ELSE db.vecs]

Appended(files, item, embedded) ==
  IF Skipped(item) \/ ~embedded \/ item.layer # 2 \/ item.id \in IdsIn(InFile(files, Path(item)))
  THEN files
  ELSE Put(files, Path(item), Append(InFile(files, Path(item)), item))

(* Queries.  opts: a limit and the filters, Blank for any user or source   *)
(* type (convertRetrieveOptions).  There is none for the time: the         *)
(* searches of Memoria make options of their own without the time range    *)
(* that the history tool and the command put into theirs.                  *)
SourceType(item) == IF item.file THEN "file" ELSE "chat"
Fits(item, opts) ==
  /\ item.layer \in {2, 3}
  /\ opts.user = Blank \/ item.user = opts.user
  /\ opts.type = Blank \/ SourceType(item) = opts.type

Hit(d, score, type) == [id |-> d.id, score |-> score, type |-> type]

(* The n best of the hits, whichever of equal ones.                        *)
Best(n, hits) ==
  CHOOSE top \in SUBSET hits : /\ Cardinality(top) = Min({n, Cardinality(hits)})
                              /\ \A h \in top, g \in hits \ top : h.score >= g.score

(* Mutant: the user is not asked for.                                      *)
HitsInLayerOfAll(db, opts, layer) ==
  Best(opts.limit, {Hit(d, Near[d.text], SourceType(d)) :
         d \in {d \in db.docs : d.layer = layer /\ d.id \in db.vecs /\ Fits(d, [opts EXCEPT !.user = Blank])}})

(* searchByVectorInLayer: the nearest of the layer.                        *)
HitsInLayer(db, opts, layer) ==
  Best(opts.limit, {Hit(d, Near[d.text], SourceType(d)) :
         d \in {d \in db.docs : d.layer = layer /\ d.id \in db.vecs /\ Fits(d, opts)}})

(* SearchByVector: of each layer twice what it is asked for.               *)
Vector(db, opts) ==
  LET twice == [opts EXCEPT !.limit = 2 * @]
  IN Best(opts.limit, HitsInLayer(db, twice, 2) \cup HitsInLayer(db, twice, 3))

(* Memoria.semanticSearch: twice the limit, cut to the limit.              *)
Semantic(db, opts) == Best(opts.limit, Vector(db, [opts EXCEPT !.limit = 2 * @]))

(* buildFTSQuery: the rows that match.                                     *)
Found(db, opts) == {d \in db.docs : Match[d.text] > 0 /\ Fits(d, opts)}

(* ftsSearch: twice the limit of the best matches.  The rows have no       *)
(* source type, and normalising turns the rating over: a better match      *)
(* scores less.                                                            *)
FullText(db, opts) ==
  LET best == Best(2 * opts.limit, {Hit(d, Match[d.text], Blank) : d \in Found(db, opts)})
  IN {[h EXCEPT !.score = 10 \div (1 + @)] : h \in best}

Keyword(db, opts) == Best(opts.limit, FullText(db, opts))

(* Memoria.Search: keyword hits supplement too few semantic ones, and the  *)
(* filter by source type applied last drops those.  A query that cannot be *)
(* embedded is looked for by full text.                                    *)
SearchWith(db, opts, embedded) ==
  LET first == IF embedded THEN Semantic(db, opts) ELSE Best(opts.limit, FullText(db, opts))
      more == IF Cardinality(first) < opts.limit
              THEN {h \in Keyword(db, opts) : \A g \in first : g.id # h.id} ELSE {}
  IN Best(opts.limit, {h \in first \cup more : opts.type = Blank \/ h.type = opts.type})

(* The agent's tools and the command ask with fixed filters.  Numbers in a *)
(* tool's arguments come from JSON and are no Go int: its limit is the     *)
(* default.                                                                *)
HistoryOpts(call) == [limit |-> DefaultLimit, user |-> call.user, type |-> "chat"]
RagOpts(call) == [limit |-> DefaultLimit, user |-> Blank, type |-> call.type]
CliOpts(call) == [limit |-> call.limit, user |-> Blank, type |-> call.type]
OptsOf(call) == CASE call.tool = "history" -> HistoryOpts(call)
                  [] call.tool = "rag" -> RagOpts(call)
                  [] OTHER -> CliOpts(call)

(* What they show; only the history tool shows hits with a low score.      *)
Answer(db, call, embedded) ==
  {h \in SearchWith(db, OptsOf(call), embedded) : call.tool = "history" \/ h.score >= call.score}
=============================================================================
