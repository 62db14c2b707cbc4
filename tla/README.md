# A TLA+ model of the tts-tutorial speech stack

The repository is the source tree of a text-to-speech image: Festival and the
Edinburgh Speech Tools it is built on (`src/usr_local/src/festival`,
`src/usr_local/src/speech_tools`), the Sparrowhawk text normalizer
(`sparrowhawk`), the Thrax grammar compiler, a grapheme-to-phoneme lookup and
Afrikaans grammars and data. This directory holds TLA+ modules of its control
logic, TLC configurations that check them on small instances, and proofs that
TLAPS checks for every instance. Paths below are relative to
`src/usr_local/src`.

To check a run: `tlc -config <run>.cfg <module>` (the modules of the runs are in
section 4). To check the proofs: `tlapm <module>.tla` for each of
`FestivalServerProofs`, `FileTransferProofs`, `ClientReplProofs`,
`JavaClientProofs`, `SiodErrorsProofs`, `LingGraphProofs`, `AudioSpoolerProofs`
and `NormalizerProofs`. `PROJECT.json` lists components, runs, the mutants that
show that each property can fail, the source lines of each definition, hazards,
findings and theorems.


## 1. Inventory

How the parts meet: a text client (`festival_client`, or a Java `Session`)
connects to the **server loop**, which forks a Festival image per connection.
There the **read-eval-print loop** reads expressions from the socket and sends
values and waveforms back through the **file transfer**. An evaluation runs in
the **SIOD interpreter**, whose errors, throws and interrupts leave it by
`longjmp`. It works on an utterance, an **utterance graph** of items, relations
and contents; the text of an utterance may go through the **Sparrowhawk
normalizer**, which parses the classifier grammar's output, serializes each token
for the verbalizer grammar and lists tokens and words, and **Festival's
Sparrowhawk module** reads that listing back into `Token` and `Word` relations.
Played waves go to the **audio spooler**, a process of its own at the end of two
pipes.

| component | state | operations | hard behaviour | what makes it correct |
|---|---|---|---|---|
| Server accept loop (`festival/src/arch/festival/server.cc`) | listening socket, held connection, `num_clients`, children | accept, access check, limit test, fork, reap, close | children end, clients connect, send passwords and hang up between any two steps; zombies counted as clients; other children of the process | the count counts, the limit holds, each connection has one holder and is answered, a full server recovers |
| Sparrowhawk normalizer (`sparrowhawk/src/lib/protobuf_parser.cc`, `normalizer.cc`, `normalizer_utils.cc`) | place on a path of arcs, input gathered so far, open messages and their order, tokens, words | parse tokens from the classifier's output, verbalize, fall back to a verbatim reading | one-arc read-ahead that must be undone, quoting, a second reading, input anywhere along the path | what was spelled is read; indices say where a token is; tokens and words refer to each other |
| Sparrowhawk serializer (`protobuf_serializer.cc`) | an automaton that grows | spell a field, an order of fields, a message in a message | orders cut off at 5040, a final state found by looking back, features that may be skipped, a recorded order | it spells the token, in every order that is allowed, and nothing else |
| Festival's Sparrowhawk module (`festival/src/modules/Sparrowhawk/Sparrowhawk.cc`) | a stream of fields, pending punctuation | build Token and Word relations | a missing field shifts the columns, the stream's end is noticed late | each word below its token, each mark in its place |
| File transfer (`speech_tools/utils/filetrans.cc`) | two scans for the end key, bytes under way | send and receive a file, stuffing the key | both scans restart without a second look; loss of the server; end of connection read as data | files arrive whole and in order, a cut file never passes for one |
| Client program and read-eval-print loop (`festival/src/main/festival_client.cc`, `speech_tools/siod/slib.cc`, `slib_server.cc`) | a state automaton over the script, the reader's state, answers under way | send bytes, wait for an answer, read, evaluate, answer | two automata written apart must find the same expressions; end of file inside an expression | in step, every wait ends, the server leaves |
| Java client (`festival/src/modules/java/cstr/festival`) | request table, job queue, request fields, three kinds of thread | request, wait, serve jobs, notify, terminate | `suspend`/`resume`, check-then-wait, unsynchronized ids, exceptions that end a thread | requests in order and once; nobody waits for nothing; the session ends |
| SIOD's non-local exits (`speech_tools/siod/slib.cc`, `slib_core.cc`, `slib_file.cc`; `festival/src/modules/Text/text_modes.cc`) | `est_errjmp`, the chain of `*catch` frames, the list of open files, interrupt flags | enter and leave `*catch`, `unwind-protect`, text modes; error, throw, quit, Ctrl-C; open and close files | two kinds of exit that do not know of each other's pointer; a cell that remembers a list; a signal at any time | a jump lands in a live frame, the innermost that it can mean; files opened inside are closed, others not; an interrupt gets through |
| Utterance graph (`speech_tools/ling_class`) | next/previous/up/down links, relation ends, contents shared between relations | insert, append, delete, merge, move, exchange, clear | a destructor that mends its neighbours, contents taken from other items, originals leaked by copies | links double, contents and items refer to each other, ends meet, one relation at a time |
| Audio spooler (`festival/src/arch/festival/audspio.cc`, `festival/src/main/audsp.cc`) | two pipes, queue of waves, a playing child, several spoolers at a time | play, set options, close, query, shutup, sync; read commands, start and reap children | commands while a child plays, a full queue, failing forks, a spooler that dies, two spoolers alive | one confirmation per command, order, nothing left behind, calls return |
| Sparrowhawk rules, sentence splitter, configuration; Thrax, g2p | compiled grammars | compile, look up, split | none concurrent; substance is OpenFst and re2 | not modelled |
| EST containers, signals, grammars, statistics, text, lexicon, prosody, synthesis, JSAPI, Tcl, scripts | various | mostly sequential or numerical | few | see section 8 |

The hazards (`PROJECT.json`, "hazards") are the lines where these behaviours
bite, and the properties aim at them.


## 2. How the project grew

Most important behaviour first; each step was model-checked before it was proved.

1. The server loop and its proofs; the file transfer against FileCopy; the client
   and the read-eval-print loop; the Java client against RequestQueue; the
   utterance graph and its proofs; the spooler; the parser and normalizer.
2. Festival's Sparrowhawk module composed with the normalizer; SIOD's non-local
   exits against Unwinding; two callers at a time in the Java client; the
   serializer and the recorded order of fields, composed with the parser.
3. Proofs of OnePlaceEach, of the safety of SIOD's exits, the spooler, the Java
   client and the file transfer (with the refinements of the last two and of
   SIOD), and of the types of the client.
4. Proofs of what is reached along the links of the utterance graph: EndsMeet,
   ViewsAreReachable, that no item is lost, and OneRelationAtATime; of InStep; of
   DaughtersAgree and PositionsRight; and, of what comes back to Festival, of
   TokensKeepTheirWords and MarksKeepTheirPlace.
5. Proofs of the graph under the operations on whole subtrees as well: merging,
   moving, copying and exchanging.

Left for who goes on: the JSAPI synthesizer's queue on top of JavaClient; copying
of utterances on top of LingTrees; a proof of ReadsWhatIsMeant, which needs what a
path means as a function of it.


## 3. Modules

**FestivalServer** — `festival_start_server`. `pc` is the place in the loop
(`accept`, `access`, `limit`, `reap`, `close`, or `dead`), `fd1` the connection held,
`kid` the state of each process id as the kernel keeps it. One action per step
of the loop (`Accept`, `client_access_check`, `TooMany`, `Fork`, `ForkFails`,
`ReapOne`, `ReapNoChild`, `ReapDone`, `Close`); `Connect`, `SendPasswd`,
`HangUp` are the clients, `KidExit` the children. When `accept()` fails the
process ends (`AcceptFails`); its clients' children go on, and as long as one of
them has the listening socket open the kernel still takes connections that
nobody will accept (`Listening`, `LastListener`). The password is one `read()`:
it may return a part and leave the rest of the buffer uninitialized, which is a
free choice. `waitpid(0, ...)` reaps any child of the process group, so a child
that was there before the loop (`OtherKids`, for example a spooler) can be
counted as a client's. SIGCHLD may have been ignored when the process started.
The limit is looked up as `server_max_client` in `Lval`, while the manual calls
it `server_max_clients`.

**FileTransfer**, **FileCopy** — the sender scans the file for the key and
stuffs a byte, the receiver scans what it receives; `sk` and `rk` are the two
scans' places, `chan` the bounded connection, `ServerDies` cuts it. FileCopy is
what is promised: files arrive whole and in order. `Clean` says which files the
stuffing can carry: those that do not end in a beginning of the key, and do not
hold the key with the filler for its last byte.

**ClientRepl** — `copy_to_server` sends a script byte by byte through a buffer
of `BufLen` bytes and follows it with `new_state` and a depth; where it thinks an
expression ends it waits. `read`, `read_eof` and `eval` are the other end, with
the reader's own lexical state `rd`; a value that cannot be put into its
temporary file is answered by OK alone. How a file follows `WV` and `LP` is
FileTransfer's subject.

**JavaClient**, **RequestQueue** — a step is one synchronized method, one
unsynchronized access of a shared field or one call of `suspend`/`resume`.
`Callers` run `request` and then perhaps wait; `Festival` is the thread's
`run`; `Main` is `terminate`. RequestQueue is a queue of requests served one at
a time in order, each finished once. A job ends in two steps: `notifyFinished`
looks the request up (`found`), `remove` takes what the table has under its id by
then and tells the request; in between callers go on, and may give the id again.
`Served` maps the job in hand and the job
queue to its `pending`. `twice` remembers that an id was given to two requests.

**SiodErrors**, **Unwinding** — `stack` is the part of the C stack that holds
`jmp_buf`s: frames of `*catch`, of `unwind-protect` and of text modes. The global
`est_errjmp` and `catch_framep` point into it, and each frame holds the pointer it
has to restore. An exit is a `jump` on its way: an error (or a quit, or an
interrupt, which are errors to the handlers) goes where `est_errjmp` points, a
throw searches the chain frame by frame (`at`). A frame may be `Gone`; what a jump
into it does is any outcome (`status = "wild"`), after which nothing is claimed.
Files are opened, closed and closed "up to" the cell that was the head when a
handler was entered. Ctrl-C comes at any step, and is an error there and then or
put off; also between the steps of a handler: after `est_errjmp` points to its
`jmp_buf` and before `setjmp` sets it, after `wfree` and before the pointer is
restored, and when interrupts are on again but the files not closed yet (`buf` of a
frame says how far it is). Unwinding is what is promised: scopes nest, and an exit
goes to the innermost scope that takes it.

**LingGraph** — the heap of items (`n p u d` links, relation, contents),
contents (`reg`, which item shows them in which relation) and relations
(`head`, `tail`) as one record, so that an operation that calls others is a
composition of operators on heaps, as in the code. Actions are the calls that
Scheme code makes (`append`, `insert_before`, `append_daughter`, `remove_item`,
`unref_all` ...). A deletion of contents shown in several relations is a loop,
one `delete_next` a step, `doomed` being the contents.
**LingTrees** adds `merge_item`, `move_item`, `move_sub_tree` and
`exchange_sub_trees`. `copy_node_tree` calls itself for the siblings and for the
daughters; `CopyNodeTree` is that as a recursive function of the levels it may
still go down, and as many levels as there are items are always enough.

**AudioSpooler** — each spooler is a record: its two pipes, its queue, the
child that plays, the place in its loop. Festival's calls write a command and
read the confirmation; `start`, `check_new_input`, `process_command`,
`check_new_output`, `tidy_up`, `exit` and `load_play_file` are the spooler's.
A new spooler is started with each change to mode `async`, while an old one may
still run. A command and its end of line are two writes (`write`, `newline`), and
a spooler that finds the one waits for the other. Ctrl-C (`err_ctrl_c`) leaves any
call of Festival's; from a terminal it ends the spoolers too.

**ProtobufParser**, **ProtobufSerializer**, **Normalizer**,
**SparrowhawkUtt** — Normalizer extends the parser; the serializer, whose
recursive operators no proof may reach, and SparrowhawkUtt both extend Normalizer,
and MCNormalizer takes the two together. The classifier's output is a
path of arcs; `p` holds the parser's place, the last place, the last input label,
the input gathered for the token and where it started; `open` the messages that
are being parsed with the labels each had. A step of the model is one arc, or one
decision between two arcs; `NextState` and `PrevState` are what the code's
functions of those names do to these fields, `pc` says which function reads on;
`again` remembers that a value was read a second time.
A field is the sequence of its values, so that repeated ones are no exception.
The serializer is a pure algorithm: operators that build the automaton state by
state and arc by arc, in the code's order (the search back over the states depends
on it), and `Strings`, what the automaton spells. `Spellings` is the reference
definition. `VerbalizeUtt` handles one token a step: a silence for a phrase
break, the grammar's words for a semiotic class or, where there is no reading, a
verbatim one after `Clear()`, the word of a plain word. The grammars are what they
may return: `Sources` and `Readings`; which of the spellings a grammar reads is
the grammar's, so a token may have a reading or none. `ShowLinks` lists the
result, and `FT_Sparrowhawk_Normalize_Utt` reads the listing a line a step.
A name is a label of its own; the letters of values are one letter.

The MC modules give TLC its instances. The proof modules each extend the module
in their name (**NormalizerProofs** extends SparrowhawkUtt, and so speaks of the
whole way from the classifier's output to the utterance).


## 4. Runs

| run (module) | checks | instance and why it is enough | states |
|---|---|---|---|
| `server` (MCServer) | TypeOK, CounterSound, LimitRespected, OnePlaceEach; EveryClientAnswered, FullServerRecovers | two clients, a limit of one, two process ids and a spooler, a backlog of two, a password: the limit is reached with one client served, and a second one waits while zombies, strangers, failing forks and a failing `accept` come in every order | 42872 |
| `sparrowhawk` (MCNormalizer) | SpellsTheToken, PositionsRight, ReadsWhatIsMeant, DaughtersAgree, TokensKeepTheirWords, MarksKeepTheirPlace; NormalizeEnds | tokens of seven spellings alone and in pairs, each with every placing of the input along the path; rows of three and four tokens with punctuation of one byte and of three; pairs of tokens with messages of up to three fields, in a preserved order, given in two parts, empty; seven malformed outputs. Two tokens are enough for the parser: nothing is kept from one token to the next but its end. MaxOrders is 4 (5040 in the program), between the orders of two fields and those of three | 219052 |
| `sparrowhawk_last` (MCNormalizer) | AppropriateToken is violated | the same | – |
| `file` (MCFile) | ScansAgree; FaithfulCopy, EveryFileArrives | every clean file of up to five bytes over the key's three letters and the filler, a key of four letters with its first letter inside, as in `ft_StUfF_key`; three files with a key in the middle one; two bytes in flight | 61329 |
| `file_end` (MCFile) | EveryFileArrives is violated | any file of up to two bytes | – |
| `client` (MCClient) | InStep; WaitsEnd, ServerLeaves | four lines of ten kinds, cut off anywhere; each pair of neighbouring constructs occurs | 4487 |
| `java_session` (MCJava) | TypeOK, WaitersHaveAReason; ServedInOrder, QueueDrains, StopEndsThread | two callers, three requests between them, a result each, a server that may die: ids clash, and one caller waits while the other's request is served | 762320 |
| `java_hang` (MCJava) | SessionEnds is violated | one caller, one request | – |
| `siod` (MCSiod) | PointersInForce, InterruptComesThrough; JumpsLandRight, OnlyMixingDangles, ClosesItsOwn | three scopes inside one another, two tags, two files: a throw passes a handler that is inside one `*catch` and outside another, and a file is closed under the handler that remembers it while another is open | 832322 |
| `ling` (MCLing) | TypeOK, DoubleLinks, BackPointers, EndsMeet, ViewsAreReachable; OneRelationAtATime | three items in one relation and one in the other, five while a tree is copied, eight contents: every shape of three items, every sharing | 17816 |
| `ling_exchange` (MCLing) | OneRelationAtATime is violated | the same with an item seen from the other relation | – |
| `spooler` (AudioSpooler) | OneAnswerEach, CloseDrains, InOrder; CallsReturn, WavesLeave | one spooler, five waves, a queue of two: the queue is full, twice over, while a child plays. Spoolers share no state but Festival's; that the safety properties hold with any number of them is proved | 41070 |

Bounds are constants: `MaxFile`, `MaxInFlight`, `MaxPad`, `MaxLines`,
`MaxRequests`, `MaxResults`, `MaxDepth` (scopes inside one another), `MaxItems`,
`MaxStarts`, `MaxWaves`, `MaxQueue` (the program's own limit, 5 there), `Backlog`
(the program's 5), `MaxOrders` (the program's 5040). In `ling` the addresses of
items and contents are symmetric: `NewSlot` chooses a free one with CHOOSE, but
two heaps that differ by the names of free slots lead to heaps that differ by
names only. In `siod` tags and files are. Deadlock is checked for the graph, where
there is always another step; the other systems may come to an end (the server
when `accept` has failed), and there the liveness properties, where there are
some, say that they do so rightly.

What the runs show, by component:

* *Server.* `num_clients` is the number of client children not yet reaped, less
  the strangers that were reaped in their place (an over-count when the kernel
  reaps). There are never more client processes than the limit, strangers apart.
  Each connection is in the queue, in the parent's hand or with one live child.
  Each is answered, also when the process has ended: what is still in the queue
  then is reset with the last child that has the listening socket.
* *Normalizer.* Wherever the grammar emits the input along the path, and however
  far the parser has read ahead, each token gets exactly its part of the input.
  A value that is read a second time counts its input twice: the code keeps
  `token_name_` when it goes back, so PositionsRight says nothing from there on
  (`again`), and the hazard says so. Malformed output is refused.
* *Serializer.* The automaton spells the token: the same strings as the reference
  definition, among them those without the features that
  `protobuf_serializer.cc:226` calls optional, also where these come last.
  With a preserved order that depends on `preserve_order` being spelled again at
  the end (see section 6).
* *Festival's Sparrowhawk module.* Words and tokens come back as they were, but
  for the last word of an utterance, which goes to the first token, and the names
  when nothing is said at all; a word without a spelling ends the process.
* *File transfer.* The two scans agree on every clean file, also inside it, so
  that each is copied, with the key in it or without; a file that was cut is never
  closed as complete. Of the files that are not clean section 6 speaks.
* *Client.* The client's automaton and the Lisp reader find the same ends.
* *Java client.* The queue is a queue until an id is given twice, and is drained
  by a thread that is awake; `terminate(false)` ends the thread wherever it is.
  The properties say nothing of requests after an id was given twice, nor of the
  jobs of a thread that is asleep or dead, and the server's answers are those of
  the job in hand: that it sends each request's and no more is its own part.
* *SIOD.* `est_errjmp`, the head of the chain and every saved copy are the right
  live frame or dangle; they dangle only after a throw that passed a handler or an
  error that was caught outside a `*catch`; until a dangling one is used, or a
  Ctrl-C comes while a `jmp_buf` is not set, exits are those of nested scopes. A
  handler closes the files opened in it as long as the one it remembers is still
  open. Ctrl-C passes every handler.
* *Graph.* After any mix of calls links are double, contents and items agree,
  head and tail are the ends of the top level, no item is out of sight, and a
  call changes the links of one relation only.
* *Spooler.* One confirmation for each command, waves in order, nothing left
  behind by `close`, every call returns. A command that Ctrl-C has cut holds the
  spooler up until Festival ends; WavesLeave excepts that (`Stuck`).


## 5. Fairness

* *FestivalServer*: the parent is scheduled; a client that was told to send a
  password sends all of it (without that the blocking `read()` stops the server:
  that is the code's behaviour, and EveryClientAnswered is stated with it);
  client children end their session. Nothing makes a client connect, a
  stranger exit or `accept` fail.
* *FileTransfer*, *ClientRepl*: the processes run. `ServerDies` is not fair.
* *JavaClient*: each thread runs, and a server that is up answers; a request has
  `MaxResults` results at most.
* *AudioSpooler*: both programs run and a child that plays ends; Festival goes on
  with the call it is in, the second of its two writes included. It need not make
  another call, and nobody need press Ctrl-C.
* *SparrowhawkUtt*: one thread runs to its end.
* *SiodErrors*: none. What Scheme code does next is open, so everything said of
  it is safety.


## 6. Findings

* `file_end`: after a mismatch the receiver does not look at the byte again. A
  file that ends in a beginning of the key, such as the byte `f`, hides the end
  mark, and the client reads for ever (`filetrans.cc:99`).
* `java_hang`: `isEmpty`, the test of `ok` and `suspend()` are three steps, as
  are `isFinished()` and `waitForUpdate()` two; a `resume()` or a notification
  between them is lost and the client never ends, against `--sync` and `--wait`.
  In the same gap a job can be thrown away (`Festival.java:137-140`).
* `ling_exchange`: `exchange_sub_trees` hangs ITEM2's descendants below `from`,
  not below the view of it in ITEM2's relation (`item_aux.cc:177`).
* `sparrowhawk_last`: `next_token` asks for the end of the stream after it has
  read, when the last field makes it true already: the last word's parent is read
  as nothing, and the word goes below the first token (`Sparrowhawk.cc:84`).

Without a run of their own:

* A file that holds the key with an `X` for its last byte, `ft_StUfF_keX`, arrives
  without that `X`: the sender stuffs before the last byte of a whole key only
  (`filetrans.cc:131-144`), the receiver drops every `X` that follows the key less
  its last byte (93-98). `filetrans.cc:112-114` guarantees any binary transfer.
  FaithfulCopy is false of such files, and `Clean` excludes them.
* A Ctrl-C that leaves an unwind-protect between `walloc` and `setjmp`
  (`slib_core.cc:242`, `:248`), a text mode likewise (`text_modes.cc:75`, `:77`), or
  either between `wfree` and the restored pointer (`slib_core.cc:263-264`) jumps
  through a `jmp_buf` that is not set. OnlyMixingDangles says that nothing else can
  go wrong there.
* A Ctrl-C between the two writes of a command (`audspio.cc:89-90`) makes the
  spooler wait for the rest of the line, with waves in its queue, until Festival
  ends.
* With `preserve_order` the parser records every label, `preserve_order` itself
  and each mention of a repeated field; the serializer spells all values of a
  repeated field at each mention, and `preserve_order` once more. A telephone
  number of two parts is spelled as four (`protobuf_serializer.cc:129`,
  `semiotic_classes.proto:33`: "Preserve order from what was given in the text").
* `(audio_mode 'sync)` closes the spooler's pipes with waves still queued, where
  `utterance.cc:1030-1032` says that it waits for the spooler to empty; after
  `close`, the next play does not restart the spooler (`audspio.cc:151`).
* `(quit)` is an error to the handlers: inside an unwind-protect or a text mode it
  is caught and the program goes on, while `slib.cc:1884` says "Exit from
  program, does not return."
* A text mode that catches an error leaves `nointerrupt` at 1, and a Ctrl-C is put
  off and then forgotten (`text_modes.cc:77`).
* A comment followed by a blank line makes the client wait for an answer that does
  not come (`festival_client.cc:372`); with the server gone its loop does not end
  (`:326`); a password sent to a server without one is read as an expression
  (`:176`).
* `insert_above` on an item with siblings takes its parent link and leaves the
  sibling links (`EST_Item.cc:298`).
* The server looks up `server_max_client` while the manual says
  `server_max_clients`. The result of a normalizer's `Setup` is dropped
  (`Sparrowhawk.cc:58`). The "single silence" test reads an id that is never set
  (`normalizer.cc:141`). With a signed `char` the indices of tokens count bytes,
  while `items.proto:56` says codepoints.


## 7. Proofs

All proofs are checked to the last leaf by tlapm with Z3, Zenon and LS4, and hold
for every value of the constants that satisfies the modules' assumptions: finitely
many process ids (ServerAssumption); a key in which no letter is the filler and
the last letter comes once (KeyAssumption); finitely many requests
(ClientAssumption); lines on which both automata agree (AgreementAssumption);
finitely many items and contents, with Nil apart
(PointerAssumption, BoundAssumption); a depth, tags and files (DepthAssumption,
TagAssumption, FileAssumption); positive bounds of the spooler
(BoundsAssumption).

* **FestivalServerProofs.** `IInv == TypeOK /\ KidsSound /\ CounterSound /\
  LimitRespected`. KidsSound is the strengthening: only a child that was there
  before the loop can be lost, and where the kernel reaps there are no zombies;
  without it a reaping step could lower the count for a process that was never
  counted. The steps that matter are `Fork`, `ReapOne` and `ReapNoChild`, where
  cardinalities of the set of children change by one. For OnePlaceEach the
  invariant is `PInv`: a client that waits is in the queue or in the parent's
  hand, the queue has no client twice, and a child's client is its own.
* **FileTransferProofs.** The invariant `Course` speaks of the bytes under way:
  there is a run of the receiver over the bytes in the connection, from the state
  it is in, such that every list of closed files along it is a beginning of the
  files, and, while the server lives, the last state has the sender's place in
  the key and the sender's part of the file (what was written, then the part of
  the key that is held back). A byte sent prolongs the run, a byte received drops
  its first state, and a dead server leaves it as it is. ScansAgree and the
  refinement to FileCopy follow, for files that the stuffing can carry
  (`Carried`: the excluded ones are those of the finding, which end in a beginning
  of the key, and those that hold the key with the filler for its last byte).
* **ClientReplProofs.** Types: the reader's depth never falls below zero, the
  client's buffer never fills. InStep depends on which lines there are (some break
  it: section 6), so AgreementAssumption asks of each line by itself that both
  automata come back to their beginning with an answer for each wait, and that who
  waits is answered for what was sent; TLC evaluates it for the lines of the run.
  The theorem is that this is enough: that nothing is left over from line to line
  when bytes are held back, answers are late, errors reset the reader and the
  server may go. The invariant `Agreement` is an account: the bytes under way
  `Leads` the reader to where it is when all that was put is read, from there the
  rest of the line `Goes` to an even end, and the answers the client took, those
  under way and the one being made are as many as the reader has given. A byte
  put, read, or given back changes one end of these runs. That the recursive
  function `Course` has a value at all is shown by least counterexample
  (`LeastNumber`). The account also shows that client and server never wait for
  each other (NobodyWaitsForBoth).
* **JavaClientProofs.** The invariant is `IInv /\ FoundIs`. `IInv` is types (with
  the numbering: ids in use are at most as many as requests) and, until an id is
  given twice, three conjuncts: what a caller is registering is in the table
  (Registered), the job in hand is one that was taken from the queue (Claimed),
  every unfinished request is in the queue, in hand or about to be queued
  (Followed). FoundIs says that the request that was looked up is still that of
  the job in hand when its entry is removed. WaitersHaveAReason and the refinement
  to RequestQueue follow, step by step for callers, thread, `Main` and server.
* **SiodErrorsProofs.** `IInv == TypeOK /\ InPlace /\ PointersInForce /\
  SearchOnCourse`. InPlace: only frames of `*catch` have a tag, every handler has a
  `jmp_buf`, and tidying up comes after the handler was in force. That the
  pointers, saved ones included, are the innermost frame of their place or dangle
  is what makes restoring one on the way out right; the search of a throw is on
  the chain below its start (SearchInChain). Only the innermost handler's `jmp_buf`
  can be unset or freed, and only a Ctrl-C can find it so (BuffersReady): with
  these two, OnlyMixingDangles holds for the jumps as well. `JumpsImplementScopes`
  maps the two pointers to Unwinding's scopes; `ClosesExactly` has its own invariant on
  the list of files (in order, and cut where the handler's cell is).
* **LingGraphProofs.** `IInv == TypeOK /\ DoubleLinks /\ BackPointers /\
  EndsMeet /\ LostAlone`, of `TreeSpec`. Links, contents and what is reached need
  each other: `append` and the destructor trust the ends, and a list that did not
  lead from head to tail would let them cut what lies between. LostAlone is about
  the items that are allocated and in no relation's tree, such as the originals
  that `exchange_sub_trees` copies and a childless first daughter that
  `move_sub_tree` passes over: they share their contents with no other item, so no
  view of an item in use leads to them, which is ViewsAreReachable. Insertions and
  deletions alone leave no such items (NoneLost, a theorem of `Spec`).
  Linking leaves contents alone and the operators on contents leave links alone,
  so each half is carried through the operators by lemmas of its own: first from
  the operators (`Store`, `Unref`, `SetContents`, `InsertAfter`, ...), then for
  the composed calls (`AppendDaughter`, `Delete`, ...), then for the actions.
  The model defines what is reached (`List`, `Tree`) by closed sets, the least
  set with the head that the links do not leave, so no induction is needed: to
  show that an item is reached after a call, take any set closed under the new
  links and make of it one closed under the old (`NextClosed`, `TreeClosed`:
  with the items that the call removed, or with the new one). `Elsewhere` says
  that a call left every relation but one as it was; `Changed` that moreover the
  heap is whole again, but for a given set of items that no head leads to;
  `Became` that these are exactly the lost ones and alone. Became gives the
  invariant and OneRelationAtATime.
  A copied tree is followed level by level. `CopyNodeTree` being a recursive
  function, that it has the values of its definition is shown first, by the
  least number for which it had not (LevelsExist, CopyNodeTreeLevels). `Grown`
  then says what so many levels of copying do: new items are reached from the
  item the copy was hung on, each original is left alone with new contents, the
  rest is as it was, and no more slots and contents are used than there are
  originals (Copies, by the number of levels). It needs the item copied below to
  be outside the tree that is copied; without that the copying would not end.
  `move_sub_tree` and `exchange_sub_trees` cut daughters off first: what is cut
  off is an `Island`, which no link enters or leaves, until its list is deleted
  (DeleteListWhole) or its items, copied, stay behind alone. In between, `Moved`
  and `Swapped` say which contents an item has and which it is shown by.
  The theorems assume `~ForeignViews`: when `exchange_sub_trees` is given an item
  seen from another relation, OneRelationAtATime is false (run `ling_exchange`).
* **AudioSpoolerProofs.** `IInv` counts confirmations: for each spooler, those in
  the pipe and those it still owes for the command it has are at most one, and
  none when Festival may send, which after a Ctrl-C it may not (Counted); beside
  that each wave's number is fresh and the queue sorted (Placed, Sorted, UpTo),
  and what a closing spooler keeps is accounted for (Kept). OneAnswerEach, CloseDrains and InOrder follow.

* **NormalizerProofs.** For any set of paths over the labels (SourceAssumption)
  and any readings that are words (ReadingsAssumption): the proofs ask nothing
  of what a path spells, so they hold of malformed output too. `Verbalized` says
  that the parser's stack of messages is one, that each token has indices and
  daughters among its fields (which no field of a message is named like, so what
  the grammar spells cannot overwrite them), that each token that had its turn
  has a stretch of the words, with the tokens' order, and that the others have
  none. The last is why a token that is cleared for its verbatim reading loses no
  words, and DaughtersAgree follows. `Positioned` is the account of the input:
  what has been gathered for a token is the input from the token's start to the
  arc the parser has read to, `NextState` prolongs it, `PrevState` takes the same
  byte off again, and what is stripped at a token's end, with what is passed
  before the next, is spaces. It says nothing after a second reading.
  `Passed`, the input along a path, is a recursive function; that it has the
  values of its definition is shown by least counterexample, as in the client,
  and so are `TokenLines` and `WordLines`, what is listed from each line on.
  `Listing` says where the stream is: at the beginning of a token's line, of a
  word's, or at its end. A token's line without a name is told from one with by
  its fifth field (`TokenRead`), also at the end of the listing, where nothing is
  there to tell but neither is there a word; PunctuationAssumption is why neither
  the class's name nor indices pass for a mark. `Items` says which tokens the
  items so far are of, `Marks` that before each item, and after the last, the marks
  are those that were there: one more is pending or goes to the last item, and it
  goes there only while none is pending, so the order is kept on either side.
  `WordsPlaced` counts the words that are said. Each follows a line a step, and
  TokensKeepTheirWords and MarksKeepTheirPlace are what they say at the end (of
  the marks, also before it).

Only model-checked: liveness (all of it: the prover has no ENABLED);
SpellsTheToken (the serializer's operators are recursive); ReadsWhatIsMeant (what a
path means is given with it, and only for the instance). What a recursive function computes for every input would need
induction over data, which the installed provers cannot instantiate.


## 8. Not modelled

| part | why |
|---|---|
| features and ids of items, items outside relations | no link depends on them |
| `FixLookahead`, `ParseMessageFromFST`, `AddPhraseToUtt` of the normalizer | not called |
| a second message type inside a message, fields of other types than string and bool, weights of arcs | the same code paths again; a weight only ranks readings |
| the table of normalizers by voice | one lookup |
| player options of the spooler | one command stands for all that set one |
| `pipe` or `fork` that fails as a spooler is started | nothing is started and the mode stays off, as if it had not been asked for |
| an answer of the server that is none of ER, LP, WV, OK, as the Java client sees it | the server sends none |
| bytes read by the Java client | one answer is one step |
| SIOD's evaluator, its collector, `festival_eval_command` | an evaluation is a step: what Scheme code does is open. Protection of cells is a matter of C++ locals, which no state of the interpreter shows |
| SIOD with `errjmp_ok` 0, an `fdopen` that fails, a Ctrl-C while a throw searches | before the first prompt; not handled; one more flag |
| Sparrowhawk rule cascades, sentence splitter, configuration | OpenFst compositions; one pass of a regular expression library |
| Thrax, g2p | off line, or one call of OpenFst |
| EST containers | sequential data structures |
| utterance copying and files, merging | one pass over a graph each |
| Viterbi search | a beam search promises no optimum to check against |
| signals, tracks, grammars, statistics, synthesis modules | numerical, sequential |
| text modes but for their error handling, lexicon, prosody, parsing | one pass of pure functions over the graph |
| JSAPI synthesizer | its engine is not in the repository; its item threads race with `speak` and `cancel` above JavaClient |
| Tcl, web, scripts, image, grammars, voices | glue and data |
