----------------------------- MODULE MemoryText -----------------------------
(***************************************************************************)
(* From texts to memory items: how the processors of src/memoria cut a     *)
(* chat session or a knowledge file, what they make of the model's         *)
(* replies, and what is left of an item when its Markdown file is read     *)
(* again.                                                                  *)
(*                                                                         *)
(* A text is a value: a question stands for its question-and-answer pair,  *)
(* a message body for what a participant said.  A file is the sequence of  *)
(* the lengths of its lines.  Prompts, keywords, token counts and          *)
(* truncated previews are left out; the model's reply is one of the shapes *)
(* its parsers tell apart.                                                 *)
(***************************************************************************)
EXTENDS Integers, FiniteSetsExt, SequencesExt

CONSTANTS
  Blank,      \* the empty text
  DefaultUser, \* "default"
  Thought,    \* a body that is nothing but a <think> block
  MaxChunk,   \* Config.MaxBatchSize where it cuts files
  Ruled       \* texts with a line that starts a Markdown section ("---")

Halls  == {"facts", "events", "discoveries", "preferences", "advice"}
Layers == 1..3

(* A message of a session.  Without a body it is dropped when parsed;      *)
(* calls says that it asks for tools.                                      *)
Said(msg) == msg.body # Blank
Spoken(msg) == IF msg.body = Thought THEN Blank ELSE msg.body

(* The elements of s at some of its places.                                *)
Pick(s, places) ==
  [k \in 1..Cardinality(places) |-> s[CHOOSE i \in places : Cardinality({j \in places : j <= i}) = k]]

-----------------------------------------------------------------------------
(* Chat sessions.                                                          *)

(* findFinalAnswer: backwards from a message, not past the user's.         *)
FinalAnswer(msgs, start) ==
  LET good == {i \in 1..start : /\ msgs[i].role = "assistant" /\ ~msgs[i].calls
                                /\ Spoken(msgs[i]) # Blank
                                /\ \A j \in i..start : msgs[j].role # "user"}
  IN IF good = {} THEN Blank ELSE Spoken(msgs[Max(good)])

WithPair(pairs, question, answer) ==
  IF question = Blank \/ answer = Blank THEN pairs
  ELSE Append(pairs, [q |-> question, a |-> answer])

(* Mutant: the answer is looked for behind the next question.              *)
PairsLate(session) ==
  LET msgs == Pick(session, {i \in DOMAIN session : Said(session[i])})
      Step(acc, i) ==
        IF msgs[i].role # "user" THEN acc
        ELSE [pairs |-> WithPair(acc.pairs, acc.q, FinalAnswer(msgs, i)), q |-> Spoken(msgs[i])]
      end == FoldLeftDomain(Step, [pairs |-> <<>>, q |-> Blank], msgs)
  IN WithPair(end.pairs, end.q, FinalAnswer(msgs, Len(msgs)))

(* parseJSONL and extractQAPairs.                                          *)
Pairs(session) ==
  LET msgs == Pick(session, {i \in DOMAIN session : Said(session[i])})
      Step(acc, i) ==
        IF msgs[i].role # "user" THEN acc
        ELSE [pairs |-> WithPair(acc.pairs, acc.q, FinalAnswer(msgs, i - 1)), q |-> Spoken(msgs[i])]
      end == FoldLeftDomain(Step, [pairs |-> <<>>, q |-> Blank], msgs)
  IN WithPair(end.pairs, end.q, FinalAnswer(msgs, Len(msgs)))

(* What a pair is: a question, and the last thing the assistant said to it *)
(* before the next question that was not a request for a tool.             *)
PairsMeant(session) ==
  LET At(i, role) == session[i].role = role /\ Said(session[i])
      Next(i) == Min({j \in i + 1..Len(session) : At(j, "user")} \cup {Len(session) + 1})
      Replies(i) == {j \in i + 1..Next(i) - 1 : At(j, "assistant") /\ ~session[j].calls
                                                  /\ session[j].body # Thought}
      asked == {i \in 1..Len(session) : At(i, "user") /\ session[i].body # Thought /\ Replies(i) # {}}
  IN [n \in 1..Cardinality(asked) |->
        LET i == CHOOSE i \in asked : Cardinality({j \in asked : j < i}) = n - 1
        IN [q |-> session[i].body, a |-> session[Max(Replies(i))].body]]

-----------------------------------------------------------------------------
(* parseSessionKey: the key is its parts, one part is that part.  A short  *)
(* key is a user without an account, of a long one the parts after the     *)
(* third are dropped.                                                      *)
Who(key) == IF Len(key) < 3 THEN [user |-> IF Len(key) = 1 THEN key[1] ELSE key, acct |-> Blank]
            ELSE [user |-> SubSeq(key, 1, 3), acct |-> key[2]]

(* Memory items, without the ID they get when they are made.  who is the   *)
(* user and the account of a session's key, or the default user of files.  *)
Memory(layer, hall, file, src, who, text, form) ==
  [id |-> 0, layer |-> layer, hall |-> hall, file |-> file, src |-> src,
   user |-> who.user, acct |-> who.acct, text |-> text, form |-> form]

(* parseChatResponse, parseChatBatchResponse: only preferences are L1.     *)
Noted(hall, src, who, text) ==
  Memory(IF hall = "preferences" THEN 1 ELSE 2, hall, FALSE, src, who, text, "summary")

RawPair(src, who, pair) == Memory(3, "events", FALSE, src, who, pair.q, "raw")

(* ProcessChatContent: one pair, in a reply that is an object or was not   *)
(* JSON.                                                                   *)
SingleItems(pair, entry, src, who) ==
  IF entry.empty THEN <<>>
  ELSE <<Noted(entry.hall, src, who, pair.q), RawPair(src, who, pair)>>

(* parseChatBatchResponse, and fixJSONResponse before it: an entry without *)
(* a summary says nothing.                                                 *)
Meaningful(entries) == Pick(entries, {i \in DOMAIN entries : ~entries[i].empty})

(* Mutant: the indexes of the reply are taken to start at 0.               *)
BatchItemsShifted(pairs, entries, src, who) ==
  LET told == Meaningful(entries)
      TextOf(e) == IF e.qa \in DOMAIN pairs THEN pairs[e.qa].q ELSE Blank
      kept == Pick(pairs, {i \in DOMAIN pairs : \E k \in DOMAIN told : told[k].qa = i - 1})
  IN [k \in DOMAIN told |-> Noted(told[k].hall, src, who, TextOf(told[k]))]
     \o [k \in DOMAIN kept |-> RawPair(src, who, kept[k])]

(* ProcessChatBatchContent: the entries of the reply in order, then the    *)
(* pairs that an entry names by its index, which counts from 1.  The       *)
(* summary of an entry with a wrong index belongs to no pair.              *)
BatchItems(pairs, entries, src, who) ==
  LET told == Meaningful(entries)
      TextOf(e) == IF e.qa \in DOMAIN pairs THEN pairs[e.qa].q ELSE Blank
      kept == Pick(pairs, {i \in DOMAIN pairs : \E k \in DOMAIN told : told[k].qa = i})
  IN [k \in DOMAIN told |-> Noted(told[k].hall, src, who, TextOf(told[k]))]
     \o [k \in DOMAIN kept |-> RawPair(src, who, kept[k])]

(* ProcessContent, when both other calls failed: any hall with any layer,  *)
(* by keywords or the model, and the text of the pair in the item itself.  *)
GenericItems(pair, kind, src, who) ==
  <<Memory(kind.layer, kind.hall, FALSE, src, who, pair.q, "raw")>>

GenericKinds == [layer : Layers, hall : Halls]

-----------------------------------------------------------------------------
(* Knowledge files.                                                        *)
SizeOf(lines) == FoldLeft(LAMBDA n, line : n + line + 1, 0, lines)

(* Mutant: the piece that is full is dropped.                              *)
ChunksDropping(lines) ==
  LET Step(acc, line) ==
        IF SizeOf(acc.open) + line > MaxChunk /\ acc.open # <<>>
        THEN [done |-> acc.done, open |-> <<line>>]
        ELSE [acc EXCEPT !.open = Append(@, line)]
      end == FoldLeft(Step, [done |-> <<>>, open |-> <<>>], lines)
  IN IF SizeOf(lines) - 1 <= MaxChunk THEN <<lines>> ELSE Append(end.done, end.open)

(* chunkContent: whole if it fits (its last line ends without a newline),  *)
(* else cut before a line that does not fit any more.                      *)
ChunksOf(lines) ==
  LET Step(acc, line) ==
        IF SizeOf(acc.open) + line > MaxChunk /\ acc.open # <<>>
        THEN [done |-> Append(acc.done, acc.open), open |-> <<line>>]
        ELSE [acc EXCEPT !.open = Append(@, line)]
      end == FoldLeft(Step, [done |-> <<>>, open |-> <<>>], lines)
  IN IF SizeOf(lines) - 1 <= MaxChunk THEN <<lines>> ELSE Append(end.done, end.open)

(* Nothing is lost or reordered, no piece is empty, and one is longer than *)
(* MaxChunk and its newline only when it is a single line.                 *)
ChunksRight(lines) ==
  LET chunks == ChunksOf(lines) IN
    /\ FlattenSeq(chunks) = lines
    /\ \A k \in DOMAIN chunks : Len(chunks[k]) = 1 \/ SizeOf(chunks[k]) <= MaxChunk + 1
    /\ Len(chunks) > 1 => \A k \in DOMAIN chunks : chunks[k] # <<>>

FileUser == [user |-> DefaultUser, acct |-> Blank]

(* ProcessFileContentRaw: the whole file.                                  *)
RawFile(f, text) == Memory(3, "discoveries", TRUE, f, FileUser, text, "raw")

(* ProcessFileContent, parseSimpleFileResponse: of a piece nothing (an     *)
(* empty summary), a summary, or after an error the piece itself.          *)
PieceItems(f, text, form) ==
  IF form = "nothing" THEN <<>> ELSE <<Memory(2, "discoveries", TRUE, f, FileUser, text, form)>>

(* FileProcessor.Process.                                                  *)
FileItems(f, text, forms) ==
  <<RawFile(f, text)>> \o FlattenSeq([k \in DOMAIN forms |-> PieceItems(f, text, forms[k])])

-----------------------------------------------------------------------------
(* Reading an item again.  generateMarkdown: the Markdown of L2 and L3 has *)
(* no user and no account.                                                 *)
Unsigned(item) == [item EXCEPT !.user = Blank, !.acct = Blank]

(* parseSection: what follows a rule in the text is another section, which *)
(* has no ID and is dropped.                                               *)
Section(item) ==
  [item EXCEPT !.form = IF item.text \in Ruled /\ item.form # "summary" THEN "cut" ELSE @]

(* parseL1SimpleFormat: an L1 file is a list of one-line summaries, and    *)
(* every line becomes a preference of the user named like the file.        *)
RereadLine(item, name, id) ==
  [Memory(1, "preferences", FALSE, "preferences", [user |-> name, acct |-> name], item.text, "summary")
   EXCEPT !.id = id]
=============================================================================
