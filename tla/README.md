# VMime in TLA+

TLA+ models of VMime, a C++ library for composing, sending and reading mail,
the TLC runs that check them on small instances, and TLAPS proofs of what
matters most for every instance. Paths below are relative to `src/`, the
repository; `net/...` stands for `src/src/vmime/net/...`.

## 1. The system

VMime is a library: everything runs in the thread of the application that
calls it, and most calls block. What is concurrent is outside: the server at the
other end of a socket, and the other programs that use a maildir. What makes the
code hard is therefore not locking but *dialogues*: a call is a sequence of
commands and replies, or of file operations, that can be cut short at each step
by a refusal, an exception, a time-out, a lost connection or somebody else's
step, and the object is then used again.

| Component | State | Operations | Hard behaviour | What makes it correct |
|---|---|---|---|---|
| SMTP transport (`net/smtp/SMTPTransport`, `SMTPCommandSet`, `SMTPChunkingOutputStreamAdapter`) | connection, `m_needReset`, the command queue, chunk counter | `connect`, `disconnect`, `noop`, `send` (DATA or BDAT) | pipelined commands whose replies are read later; failures half-way with the connection kept | a reply is taken for the right command; "sent" means delivered; message text is never a command |
| SMTP connection and replies (`SMTPConnection`, `SMTPResponse`) | socket, extensions, authentication, half-read line | `connect`, `startTLS`, `authenticate`, `readResponse` | fallbacks (EHLO/HELO, STARTTLS, mechanisms), time-outs in a line | never in clear text when TLS is required; extensions are asked for anew after STARTTLS |
| Maildir folder (`net/maildir/maildirFolder`, `maildirUtils`, `platforms/posix/posixFile`) | cache of file names and types, count, message objects; the directory itself | `open`, `close`, `getStatus`, `setMessageFlags`, `deleteMessages`, `addMessage`, `copyMessages`, `expunge` | other programs rename and remove files between two steps; several folder objects of one path; crashes | no message is lost; a scan is complete; numbers mean what they meant |
| Maildir store and formats | list of folder objects | folder paths to directories and back | – | – |
| IMAP folder (`net/imap/IMAPFolder`, `IMAPFolderStatus`, `IMAPMessage`) | counts, message objects, own connection | `open`, `close`, `expunge`, `fetch`, `noop`, `processStatusUpdate` | untagged responses of any kind at any time | count and numbers agree with the server's mailbox |
| IMAP connection, tags, store | state (none … selected), tag, capabilities, hierarchy separator | `connect`, `authenticate`, `startTLS`, `disconnect` | as SMTP; capabilities cached across STARTTLS and the login; a late reply bears an old tag | as SMTP; nothing cached is from before STARTTLS; a call returns on its own reply |
| IMAP grammar (`IMAPParser.hpp`) | none between responses | one parser per production | text only | – |
| POP3 folder, connection, store | count, message objects, one shared connection | `open`, `close`, `deleteMessages`, `getStatus`, `fetch` | deletion is a property of the session, not of the folder object | what is marked as deleted is what QUIT removes |
| Sendmail transport, child processes | a pipe | `send` | – | – |
| Service core (`session`, `store`, `transport`, `folder`, `events`) | registries, properties, listeners | creation and events | – | – |
| Message sets | list of ranges | `byNumber`, `byUID`, `enumerate` | the last number, 2^32 - 1, UIDs that are not numbers | the set contains what the list did, in the fewest ranges |
| Sockets, time-out handlers, TLS | descriptor, status flags, stored exception | `receive`, `send`, `waitFor…`, `handshake` | polling, time-outs, exceptions across C callbacks | – |
| SASL, certificates | library contexts | challenge and response; verification | cancellation, the next mechanism, fallback to a plain login | only mechanisms that were announced on this layer |
| Streams, filters, encoders | the last characters of the previous chunk, a group of three bytes, a line | `write`, `read`, `encode`, `decode` | chunk boundaries | chunked equals whole; decoding gives back what was encoded |
| Body parts (`body.cpp`, `parserInputStreamAdapter`) | a buffer of two halves | `findNext`, `parseImpl`, `generateImpl` | a token across two reads; text that looks like a boundary | what was generated is found again |
| MIME core, builders, parsers, charsets, digests | trees of values | parse and generate | – | – |

How they interact: the application gets a store or transport from a session; a
folder calls the store's connection (or, in IMAP, its own), which writes to a
socket and reads it through a response parser; folder objects of one path are
linked through the list `m_folders` of their store and write into each other's
caches; folders keep raw pointers to their message objects and renumber them;
events are synchronous callbacks at the end of a call.

`PROJECT.json` lists the components with what is modelled of each, and the
hazards of this code with the line where each bites and the properties that
would notice.

## 2. Plan

| # | Modules | Composed of | Abstract specification | State |
|---|---|---|---|---|
| 1 | `SMTPTransport`, `SMTPServer`, `MailSubmission`, `SMTPTransport_proofs` | client + stream + server | `MailSubmission`: what any transport promises | done |
| 2 | `MaildirFolder`, `Maildir`, `MaildirFolder_proofs` | folder objects + file system + other programs | `Mailbox` (planned): messages leave only when deleted and expunged | done but for `Mailbox` and operations on other paths |
| 3 | `IMAPFolder`, `IMAPMailbox`, `IMAPFolder_proofs` | folder + server mailbox with its untagged responses + other clients | the mailbox as the responses read so far describe it (`view`, history) | done |
| 4 | `POP3Folder`, `POP3Maildrop`, `POP3Folder_proofs` | store + folder objects + session + maildrop | deletions of a session (`asked`, `confirmed`, history) | done |
| 5 | `Connection`, `SMTPConnection`, `POP3Connection`, `IMAPConnection`, `Connections`, `Connections_proofs` | the three `connect` dialogues over one model of socket, SASL and capabilities | – | done |
| 6 | `ByteStreams`, `StreamFilters`, `POP3Reply`, `ContentEncoders`, `ParserStream`, `MimeBody`, `MessageSets`, `Texts`, `Texts_proofs`, `RoundTrip_proofs` | jobs on texts that come in pieces | reference definitions on the whole text | done |
| 7 | socket polling, folder lifetime (`onStoreDisconnected` of IMAP) | | | open |

What is proved:

| Of | Proved for all values of the constants | Only model-checked |
|---|---|---|
| SMTP | all six invariants, `RefusedIsNotDelivered`, the refinement of `MailSubmission` | `EveryCallReturns` |
| Maildir | all three invariants, `ScanIsComplete` | – |
| POP3 | both invariants, `RemovedWasAsked`, `ConfirmedIsGone`, `OldFoldersSilent` | `CallsReturn` |
| Connections | all six invariants | `ConnectEnds` |
| IMAP | all three invariants, `StoreMarksMeant`, `ReturnsWhenDone`, `NewMessagesAnnounced` | – |
| Texts | `FilteredAsWhole`, `ContentIsMessage`, `RoundTrip`, `EncodedFits`, `FindsFirst`, `RangesAreTheSet` | `PartsSurvive`, `JobsEnd` |

Next would be `PartsSurvive` (section 8 says what stands in the way). The prover does
not unfold `FoldLeft`, `SelectSeq` and other operators that take an operator, nor the
library's theorems on induction; where a proof needs a loop, the model has a
recursive function, and **`Induction`** has what is needed to reason about it:
`NumberInduction` and `Iteration`, induction and recursive definition with a set
and a function in the place of the predicate and the step; and `Ranks`, that the
ranks of a finite set of numbers are one-to-one onto 1..n, which is what the
message numbers of a server are. Liveness and `ENABLED` are out of its reach.

## 3. SMTP submission

**`SMTPServer`** is the environment, which is not in the repository: the two
directions of a TCP stream (`c2s`, `s2c`) and a server that answers each command
once and in order, may refuse any command, may take the chunks after a refused one and throw them
away with a favourable answer (`DiscardChunk`), and may close the connection at any
moment, losing what it has not read and any suffix of the replies in flight.
Between a 354 and the end-of-data mark whatever it receives is message text.
Refusals of all kinds are one code, `Refusal`.

**`SMTPTransport`** is the client. `pc` says where the running call blocks:

| `pc` | Code |
|---|---|
| `none`, `idle` | no connection; connected, no call running |
| `write`, `reply` | `sendEnvelope`: about to `writeToSocket`; in `readResponse` for `m_lastCommandSent` |
| `data` | between 354 (or the last RCPT, with BDAT) and the end of the message |
| `chunk` | `sendChunk` waiting for the reply to its BDAT (server without PIPELINING) |
| `end` | reading the last reply, or, after BDAT LAST, all the replies left to read |
| `noop` | `noop` waiting for its reply |

Without pipelining `writeToSocket` writes one command per call; with it the first
call writes them all, and only the reading goes command by command. A refusal
throws and keeps the connection, except for RSET and chunks, which disconnect. The message
is a sequence of blocks: what its text is does not matter, only whether it gets
there whole. `connect()` is a single step that yields the
extensions; its dialogue is `SMTPConnection` (section 7). `isConnected`
peeks at the socket; on a connection the peer has closed it may say either, and
the model lets a call begin in both cases. A time-out drops the part of a reply
line that had come (`readResponseLine` keeps it in a local): its rest is then
read as a reply of its own, here the code `Refusal`.

`sends` is a history: each `send()`, with its message and outcome. `quiet` says
whether the connection owed nothing when the send began.

| Run | Question | Result |
|---|---|---|
| `smtp_lockstep` | Pipelining off by option; chunking as announced; two sends on up to two connections, any refusal, closing at any time. | `ReplyAnswersCommand`, `NoMutualWait`, `MailOpensTransaction`, `RefusedIsNotDelivered` hold, the transport implements `MailSubmission` (nothing is delivered altered or to others; "sent" is true), and every call returns. |
| `smtp_pipelined` | Everything on, time-outs and failing sources too. | `MessageTextOnlyInDataMode` always; `SentIsDelivered` for sends that began on a quiet connection. |
| `smtp_pipelined_replies` | Is the reply read after "Read response for RSET" (`SMTPTransport.cpp:277`) the reply to RSET? | No. After a refused MAIL with PIPELINING the replies to the rest of the envelope are still to come, and the connection is kept. TLC finds it in nine steps. |

The condition in `SentIsDelivered` is needed. With pipelining, after a refused
envelope of several recipients, the shifted replies can add up to a "sent" for a
message the server refused (seen with four recipients and DATA, or two and BDAT,
in instances larger than those of the runs). Waiting for each reply does not help
when waits are given up: four calls of `noop()` that time out leave four late
replies, and a send() that reads them as the replies to its RSET, MAIL, RCPT and so on
is that far ahead of the server; the 354 and 250 it then reads belong to commands that it
has long passed, and it returns for a message that the server is still
to refuse (37 states, in an instance with four `noop()`).

*Bounds.* Two sends are enough for one to leave something behind and the next to
meet it; two recipients make the replies of an envelope distinguishable and allow
part of them to be refused; one block besides the last chunk makes the loop over
`m_chunkCount` read more than one reply. Codes 250 and 354 are those that the
code tells apart in what it does; 200 and 251 are synonyms, and the proofs have them.

*Fairness.* `FairSpec` has weak fairness of `Client`, the steps of a running call
(the thread is scheduled), and of `Serve` (a server that stays up answers).
Nothing obliges the application to call, the server to close, a source to
fail or a handler to give up.

### Proofs

`SMTPTransport_proofs` holds for all extension sets, options, codes and bounds.

- `TypeCorrect`: `Spec => []TypeOK`, from `TypeInv`, which adds that a running
  send is the last one recorded and that there is a command to write when one is
  about to be written.
- `MessageTextIsNeverACommand`: `Spec => []MessageTextOnlyInDataMode`. That
  text meets a server in data mode is not inductive; what is, is `DataInv`:
  - `TextInv`: while text is in flight the server is in data mode, and no text
    follows an end-of-data mark;
  - `GoAheadInv`: a 354 in flight is the only one; the server is in data mode, no
    text is in flight and the client is not writing any;
  - `WritingInv`: while the client writes text the server is in data mode and
    no end-of-data mark is in flight;
  - `QueueInv`: the command queue holds no text, and an envelope for text ends
    with DATA, so the last reply `sendEnvelope` accepts is a 354.

  A 354 is thus a permission held once, by the reply in flight, by the client or
  by the text in flight, and the server stays in data mode as long as anyone
  holds it. Replies may be shifted by any number of unread ones; a stale 354
  still means that the server waits for text.

- `QuietSendsAreDelivered`: `Spec => []SentIsDelivered`. That a "sent" send() is
  delivered says nothing of the steps before; what is inductive is that the
  dialogue is in step. What a send() writes is a *script* that its message
  determines (item 0 is RSET, 1 MAIL, then the recipients, DATA, the blocks and the
  end), and three numbers place the two sides in it: r, the item whose reply is read
  next, w, the item written next, and w - `Len(c2s)`, the item served next.
  `SendInv` says of a running send that began quiet what the two streams hold
  between these numbers (`Wire`), how they follow from the client's variables
  (`Queue`, `Progress`), that the server's transaction is what the items served so
  far make of it as long as nothing was refused (`Transaction`), and that
  the reply to the last item is favourable only if the message is delivered
  (`Delivery`). `CodesInv` keeps 354 for DATA, and `FreshInv` says why the first
  send may do without RSET.

The second part of the module is about the transport in step with the server. Its theorems
assume `Lockstep`: the pipelining option is off, no handler cancels a wait, and reading a
message does not fail half-way. That is the setting of `smtp_lockstep`, with every extension
set, any number of sends, recipients, blocks, `noop()` and connections, and a server that
refuses what it likes and closes when it likes. None of the three can be left out: with
pipelining replies shift, as above; so they do after a wait that was given up; and
after a source has failed in the middle of DATA, the next send waits for a reply to what
the server takes for text.

- `EveryReplyAnswersItsCommand`, `NobodyWaitsInVain`, `MailOpensEveryTransaction`:
  `ReplyAnswersCommand`, `NoMutualWait`, `MailOpensTransaction`. They follow from
  `SendInv` and `QuietInv`: between calls nothing is owed and the server is not in data
  mode (`IdleInv`), a `noop()` owes one reply (`NoopInv`), and a send that did not begin on
  a quiet connection began on a dead one (`DeadInv`). So every send that can get
  anywhere is one that `SendInv` is about.
- `RefusedMayBeSentAgain`: `Spec => RefusedIsNotDelivered`, and
  `TransportIsSubmission`: `Spec => ImplementsSubmission`. The refinement mapping takes a
  send's record to its outcome and `delivered` to what the service took over. It needs
  `RecordInv` (the one send that is pending is the one that runs), `StrayInv` (what is
  delivered was submitted) and `OnceInv`: a message that is delivered before its
  send has ended was delivered by the last item of the script, with no refusal
  behind or before it and nothing left to serve. So none is delivered whose send is about to
  read a refusal.
- `NothingIsDeliveredTwice`: `Spec => []ServedOnce`. `delivered` is a set, which cannot tell
  a second delivery from the first; this says that there is none, as nothing of a
  delivered message's send is on its way to the server.

`EveryCallReturns` is liveness and stays with TLC.

## 4. Maildir folders

**`Maildir`** is one directory: the files of `new/` and `cur/`, each with an id,
the flags in its name, and whether it holds a message or is empty. It has
`posixFile::rename` as it is: the destination is created exclusively, then
renamed onto; if the source has gone, the empty destination stays. The other
programs deliver to `new/`, take messages from it, change flags and remove
messages marked T. `tmp/` is left out (nobody reads it).

**`MaildirFolder`** is the folder objects (`Folders`) of one process on that
path. `m_mode` combines `m_open` and `m_mode`. `scanFolder` is split where
others can come in between: the listing of `new/`; the listing of `cur/` with the loop
over the old cache (`matchMessages`: which of several files of the same id is
found first depends on the order of `readdir`, hence the choice of `match`);
each rename (`moveNew`, `moveFails`); the end. The other calls touch each file
once and are one step each; a call on a set of messages is the sequence of its
messages. `m_messages` are the message objects handed out; `id` in them is history.

| Run | Question | Result |
|---|---|---|
| `maildir_folder` | One folder object, two messages, another reader or a crash at any point. | `NoMessageLost`: no rename destroys a message, whatever empty files are around. `ScanIsComplete`: a scan that ends has found every message that was there all the while. |
| `maildir_shared` | Two folder objects of one path, failing scans, two foreign steps, three scans. | `CountWithinCache`: the count each object goes by never exceeds its cache. |
| `maildir_undelete` | Does `expunge()` "Expunge deleted messages" (`net/folder.hpp:331`)? | Not only: `setMessageFlags(FLAG_DELETED, FLAG_MODE_REMOVE)` takes T off the name and marks the cache entry as deleted (`maildirFolder.cpp:668`); the next expunge removes the message. |
| `maildir_numbers` | Is the number of a message "used to reference the message in the folder" (`net/message.hpp:240`)? | Not after an expunge of a message in the middle: the entries erased from the cache are the first ones (`maildirFolder.cpp:1187`). |

*Bounds.* `MaxOthers` counts foreign renames, removals and crashes; one
is enough to make a cached name stale or a rename fail, two to do
both. Two scans let a scan meet what an earlier one left. Two messages give a
position to be wrong; a single message is enough for the counts of two folder
objects. One flag besides none (`T`) makes two names of a message, which is what
stale names need. There is no liveness here: calls do not wait for anybody.

*Abstractions to know of.* A directory listing is atomic; POSIX does not promise
that a file renamed during `readdir` is returned, and `ScanIsComplete` is about
the code given a faithful listing. Another reader does not replace a file that
has the name it renames to. The two halves of a rename are apart only at a crash.

Also visible in the model, without a run of its own: opening a folder in
`MODE_READ_ONLY` moves files from `new/` to `cur/`, though `net/folder.hpp:88`
says that no modification is possible.

`copyMessages` to the folder's own path puts files into `cur/` and into no cache, also
in read-only mode; then another folder object of the path gets its status. In
`maildir_folder` there is no other object; in `maildir_shared` there is only one
id, so copies there are those that fail.

`setMessageFlags` with a number beyond the cache is an error of the caller: the code indexes
`m_messageInfos` with it unchecked (`maildirFolder.cpp:636-651`), which is undefined, and the model has
no such call.

Not modelled: copies to other paths, creating, renaming and destroying folders, fetching, the flags
cached in message objects, `m_unreadMessageCount` (recomputed before each use).

### Proofs

`MaildirFolder_proofs`, for any ids, folder objects, flags with T among them, any
numbers of scans, message objects and foreign steps:

- `MaildirTypeCorrect`, `NumbersAreCached`: `Spec => []TypeOK` and
  `Spec => []CountWithinCache`, from `TypeInv`, which joins them: numbers are taken
  from the cache, so message objects are well-formed only as long as the count stays within
  it, and the count stays within it only because caches and lists have their types. It
  adds that directories are finite, without which a listing has no order.
  `expunge` has two loops, one that collects the numbers of deleted messages and one
  that renumbers the objects; they are the recursive functions `DeletedAmong` and
  `Renumbering`, with a lemma each on what they return.
- `NothingIsLost`: `Spec => []NoMessageLost`, by what each step does to the messages it
  finds (`MessagesKept`): they stay, under whatever name, or are recorded as removed.
  The lemma on `posixFile::rename` is the centre of it: onto a name that exists it does nothing, onto
  another it moves the file, and cut off between the two it leaves an empty file besides.
- `ScansAreComplete`: `Spec => ScanIsComplete`. `ScanInv` says where a message is that has been
  there since the scan began: on the list of `new/`, or in `cur/` by the time that is
  listed, and from then on in the cache or on one of the lists. It needs `FilesInv`, that no two
  files hold the same message.

All that the runs check of maildirs is proved, and nothing is assumed but the two
ASSUMEs of the modules.


## 5. IMAP folders

**`IMAPMailbox`** is the other end: the messages of one mailbox, as UIDs in order
of arrival, what the session has been told of them (`told`; the number of a
message is its rank there), the commands to carry out and the lines on their way
to the client. `stage` says how far the server is with the first command. It
may announce changes before any completion, but no EXPUNGE during FETCH, STORE or
SEARCH by number, as RFC 3501 has it. Other clients add and remove messages while
the server has not begun with a command.

**`IMAPFolder`** is the client: `call` is the running call and `response` the lines
read for it. `done…` actions are the returns of calls when the tagged line has
come; `timeOut` leaves with the reply on its way, which the reader of a later
call passes over because of its tag (`IMAPParser::readResponse`). The counts and
message objects change in `processStatusUpdate`, a recursive function for the
loop over the lines of the response. Some calls ignore what came with their reply; `missed` is a
history variable that says so, and `view` is the mailbox as the lines read so
far describe it. Lines carry history too: the mailbox as each leaves it for who
has read it (`view`), and the command that a completion completes (`op`).

`imap_folder` asks, with two messages, two message objects, three tags and one
change made by another client:

- `NumberNamesMessage`, `UidNamesMessage`: does a message object keep naming its
  message through expunges of anybody, in any order? Yes, as long as the folder
  has acted on every response.
- `StoreMarksMeant`: does a flag go to the message that was meant? Yes.
- `ReturnsWhenDone`: does a call return on its own reply, even after one that
  timed out? Yes: this is what tags are for, and SMTP and POP3 lack.
- `NewMessagesAnnounced`: are new messages among those announced to listeners? Yes,
  if the count was right and the response has no EXPUNGE.

What the condition of the last one leaves out is in the code: an EXPUNGE
response does not lower the count (`IMAPFolder.cpp:1694-1700`), so the arrival that
follows it is not announced, and the numbers of new messages begin with that of
the last old one (`:1704`). `close(true)` sends CLOSE and disconnects without
reading the reply (`:322`): the model has both the mailbox that is expunged and
the one that is not. A message object that is expunged keeps its number and
can be given the UID of the message that has it now.

*Bounds.* Two messages give a number to be shifted; a third UID is the one that
arrives. Two lines on the wire let a change come before a completion. Three tags are
a call, a late reply and the call that meets it. `TimeoutOps` are the
commands whose reply may be late; one of each kind is enough, as what a late
reply meets does not depend on the others. Flags other than \Deleted, the wrap of
a tag and the connection's dialogue (section 7) are left out. A session is
opened once: message objects that a folder keeps from a lost session belong to
another numbering (`Selected` counts them as missed).

### Proofs

`IMAPFolder_proofs`, for any number of messages, commands, lines, sessions and message
objects and whichever commands may time out: `IMAPTypeCorrect` (`TypeOK`), `NumbersName`
(`NumberNamesMessage`), `UidsName` (`UidNamesMessage`), `MarksMeant` (`StoreMarksMeant`),
`CallsReturnWhenDone` (`ReturnsWhenDone`) and `AnnouncesNew` (`NewMessagesAnnounced`).

`NumberNamesMessage` is not inductive: it speaks of what has been read, and the next
line to be read was written by a server that counted in a mailbox of its own. The
invariant is about the whole **stream**, the lines read and not acted on followed by those
under way (`Stream`). Each line is right for who has read those before it (`Right`, `Chain`), and
they lead from `view` to the server's `told`; a message that a line reports as expunged is in no later
view, for UIDs do not come back (`Departed`). Then a line keeps a right object right
(`LineKeepsName`: an arrival is ranked after everybody, a removal lowers the ranks above
it), so does the whole response (`LinesKeep`), and an object
made from a FETCH line that no EXPUNGE precedes stays as it is until its line has
passed (`MadeStays`). The two invariants need each other (`StreamNow`).

- `RequestInv`: a request that means a message is the first one, and its number is that of
  the message in `told` until it is carried out. An arrival does not change the number, and
  EXPUNGE waits for the end of commands with numbers. It gives `StoreMarksMeant`.
- `TagInv`: tags on the way tell commands apart, and one that is completed is no longer
  with the server. It gives `ReturnsWhenDone`.
- `StatusNow`: a STATUS line, which counts a mailbox that the folder has not been told of yet, is
  followed by its own completion before any other; so it is never in a response that is
  treated as an update, and there the count follows the view (`CountFollows`).

## 6. POP3 folders

**`POP3Maildrop`** is the maildrop and one session: the messages are numbered when
the session begins, DELE marks, RSET takes all marks back and QUIT removes.
Replies bear no tag.

**`POP3Folder`** is the store and its folder objects, which share its connection:
RSET in `close(false)` takes back what another object has deleted. Every call that
waits for a reply is split where it blocks. A time-out leaves its reply to the
next call (at most one late reply per connection), and each call reads one reply: the code takes whatever
`receive()` delivers for one reply, so a late one and the next that come in the same segment go to
one call, which is left out; a lost connection throws from
wherever the call is. History: `asked` and `confirmed`, the messages that callers
wanted deleted and were told are; `strayed`, a folder of an earlier session has
deleted in this one; per folder `fresh`, `overtaken` (another object took the marks
back) and `left` (its store was disconnected).

A folder object that is destroyed after the connection was lost stays in the store's
list: its destructor calls `close(false)`, which throws before `unregisterFolder`
(`POP3Folder.cpp:69`). What follows the pointer is undefined behaviour; actions that
walk the list need `Walkable`, and the model stops there.

`pop3_folder` asks, with four calls on two folder objects over two sessions:
is what a session removes always something that a caller asked to delete and did
not take back (`RemovedWasAsked`), is what was confirmed removed at `disconnect`
(`ConfirmedIsGone`), do message objects tell the truth about their UID and their
deletion (`ObjectsTellTruth`), do folder objects of a disconnected store keep silent
when it connects again (`OldFoldersSilent`), and does every call return
(`CallsReturn`)? All hold. The conditions `inStep` and `overtaken` in `ObjectsTellTruth` are what
an object cannot know: a late reply, and marks taken back by another object.

*Bounds.* Only the folder objects of `Watched` delete and hand out message objects;
the other opens, closes and is destroyed, which is what disturbs the first.
`Garbage` is what the count may be when nobody has set it
(`m_messageCount` is not initialised): larger than the maildrop is the case that
matters. Four calls are open, delete, a disturbance and a close or disconnect.

*Fairness.* Weak fairness of `Server` (a server that is up answers) and of `Replied`
(the thread reads the reply that has come, or the next line). Calls themselves are
the application's choice.

### Proofs

`POP3Folder_proofs`, for a maildrop of any size, any number of folder objects, message
objects, calls and sessions, and whatever the uninitialised count is:

- `POP3TypeCorrect`: `Spec => []TypeOK`, from `TypeInv`, which adds what each
  command, reply and call on its way looks like, and that no call holds a folder
  object that is gone.
- `OnlyAskedIsRemoved`: `Spec => RemovedWasAsked`. A session that is closed with
  commands unserved may have them served yet, so it is not enough that marks were asked
  for; `AskedInv` is about the DELEs on their way and the call's remaining list as
  well, and admits a mark nobody asks for any more only while a RSET is on its way behind it.
- `ConfirmedDeletionsHappen`, `MessageObjectsTellTruth`: `Spec => ConfirmedIsGone` and
  `Spec => []ObjectsTellTruth`, from `InStepInv`. As long as no call has timed out, client and
  server exchange one command and one reply (`Exchange`); what `UIDL` and `DELE` were sent for is what
  their replies are about (`FetchInv`, `DeleteInv`); what was confirmed is marked, and QUIT
  removes it (`ConfirmedInv`).
- `LeftFoldersAreSilent`: `Spec => OldFoldersSilent`: a call that sends a command has a
  folder object with a store, and one that was left has none.

`CallsReturn` is liveness and stays with TLC.

`getStatus` tells other folder objects of a count that has grown and not of one
that has shrunk (`:784`); a session's count cannot shrink, so the next session is where
it shows, and the model has it. Events are left out.

## 7. Connections

**`Connection`** has what the three classes share: the socket and its layer
(`"clear"`, `"tls"`), the cached capabilities with the layer they were heard
on, the SASL loop and its mechanisms of three kinds: those of gsasl
(`Builtin`), XOAUTH2 with an initial response (`Immediate`) and those only the server
has (`Unknown`). **`SMTPConnection`**, **`POP3Connection`** and **`IMAPConnection`** are
the dialogues of `connect()`, an action for each reply that is awaited (`client.at`),
including replies that do not come or cannot be parsed. **`Connections`** puts
them side by side under each of the 208 settings of `connection.tls`,
`tls.required`, a port that is TLS from the start, `need-authentication`,
`options.sasl`, `sasl.fallback`, `options.apop`, `apop.fallback` and the kind of
authenticator that make a difference.

`connections` shows: when TLS is required, no credentials go out in clear
text and the connection says truly that it is secured (`RequiredMeansSecured`);
a connection is usable only with a login, and `connect` returns from no other
(`UsableIsLoggedIn`); mechanisms tried are those announced on this layer
(`MechanismsOfThisLayer`); the IMAP parser, which has a socket pointer of its own,
reads from the socket that was written to (`RepliesReadWhereSent`); what IMAP has
cached once connected is of after the login (`CapabilitiesAfterLogin`); and
`connect` ends (`ConnectEnds`).

*Assumptions.* The server sends at most `MaxChallenges` challenges and refuses
what was cancelled with `*`: a server that did neither could keep `authenticateSASL`
in its loop for good. `FairSpec` has weak fairness of `Next`: a reply comes or its time-out does.
A STARTTLS reply with more text behind it in the same segment is out of scope.

Met on the way, without a run: the manual describes `sasl.fallback` and
`apop.fallback` as options to fail (`doc/book/net.tex:136`, `:183-185`), and the code
goes on to the next kind of login when they are true; `tls.required` is not looked
at when `connection.tls` is off (the manual's `:872-876` speaks of a STARTTLS that fails);
after a login by an initial response that the server accepts without a
challenge, IMAP keeps the capabilities of before it (the exception in
`CapabilitiesAfterLogin`). IMAP's `authenticateSASL` would put a security layer under
`m_socket` and not under the parser's pointer; no mechanism is asked for one, and
`SASLSocket` is not modelled. A late reply after a time-out in `hasCapability` is not
modelled here; `IMAPFolder` has the tags.

### Proofs

`Connections_proofs`, for any mechanisms and any number of challenges:
`ConnectionsTypeCorrect`, `CredentialsNeedTLS` (`RequiredMeansSecured`),
`ConnectedHasLoggedIn` (`UsableIsLoggedIn`), `MechanismsAreFresh`
(`MechanismsOfThisLayer`), `OneSocket` (`RepliesReadWhereSent`) and
`CapabilitiesAreOfAfterLogin` (`CapabilitiesAfterLogin`). One inductive invariant, `IInv`,
carries all: a predicate `Sound` on the connection object, so that it can be followed
through the calls an action is made of and not only from step to step. Its parts are about the socket of
each place in the dialogue (`SocketInv`), where TLS must have begun (`TLSInv`: with
SMTP an EHLO after STARTTLS looks like the first one but for `startedTLS`), what
`authenticated` is worth (`LoginInv`), on which layer the mechanisms were heard
(`MechanismInv`), and when IMAP's cached capabilities are forgotten (`CapabilityInv`).
Each protocol's step is shown to keep it by itself (`SMTPStep`, `POP3Step`, `IMAPStep`).
`ConnectEnds` is liveness and stays with TLC.

## 8. Texts

Algorithms that read a stream keep something between two reads. A **job**
(`ByteStreams`: `job`, `text`, `at`, `worker`, `output`) is one such algorithm on one text;
each step hands it the next piece, of any length up to `MaxPiece`, so every way to cut
the text is a behaviour. The steps are the bodies of the loops in the code; what is
checked at the end (filters: at every step) is a definition on the whole text.

| Module | Code | Property |
|---|---|---|
| `StreamFilters` | `utility/filteredStream`: dots doubled and undone, CRLF to LF and back | `FilteredAsWhole` |
| `POP3Reply` | `POP3Response::readLargeResponse`: two stop sequences and the dot filter on a socket | `ContentIsMessage` |
| `ContentEncoders` | `utility/encoder`: base64, quoted-printable in its three modes, uuencode | `RoundTrip`, `EncodedFits` |
| `ParserStream` | `parserInputStreamAdapter::findNext` | `FindsFirst` |
| `MimeBody` | `body::generateImpl`, `parseImpl` and its searches for boundaries | `PartsSurvive` |
| `MessageSets` | `messageSet::byNumber`, `byUID` | `RangesAreTheSet` |

`texts` checks these and `JobsEnd`: loops that read until a stream says that it
is at its end, or go from one place found to the next, end. `FairSpec` has weak
fairness of the steps of those jobs: streams deliver what they have, and time-outs happen.

`text_dots` asks whether the dot filter of the SMTP transport "replaces "\n." with
"\n.."" and nothing else, wherever its input is cut. No: when a piece ends with a dot
and the next begins with a line break, `x.` and CR LF `y` give `x..` CR CR LF `y`
(`filteredStream.cpp:157`, used at `SMTPTransport.cpp:412`). `SplitAtDots` lets a piece
end there; it is off in `texts`.

*Bounds.* Bytes have their ASCII codes. Filter texts are all texts of up to five bytes over CR,
LF, dot and another; the longest that a filter matches is three. Messages have up to
two lines of two bytes; texts to encode up to six bytes (two groups of three) and a
longer one for three lines. `HalfBuffer` is 2 for the 2048 of `parserInputStreamAdapter`,
with tokens no longer than that and texts of up to seven bytes, so a token can lie across the two
halves. `UidBits` is 3 for 32. Bodies have up to two parts, some of which look like a
boundary; boundaries one of which is the beginning of the other. Prologs and epilogs have up to two words,
folded at the space between them or not.

*Where the code gives less, and the properties say so.*

- uuencode decodes wrongly when a line's length is no multiple of three
  (`uuEncoder.cpp:183` and on; no test has one). `RoundTrip` is about the other lengths.
- `getEncodedSize` is said to be never too small (`encoder.hpp:101-103`); with a limit on lines,
  base64 and quoted-printable exceed it. SMTP sends it as SIZE.
- A refused RETR is shorter than the five bytes of its first filter, which holds it
  back until a time-out: the caller gets that and not the refusal (`POP3Response.cpp:301-303`;
  the comment above says otherwise). Slow delivery is not modelled, a
  time-out happens only when nothing more comes.
- RETR content lacks its last line end; CRLF to LF keeps back a CR at the end
  (`filteredStream.cpp:226-228`; `flush` has a TODO).
- On POSIX files `findNext` may match what an earlier read left beyond the end
  (`posixFile.cpp:209-241`).
- A last part without its closing delimiter goes to the epilog when it is empty or holds the
  boundary (`CanRecover`).
- `byUID` of an empty list is 4294967295:4294967295; `byNumber` of one throws.

### Proofs

`Texts_proofs` is about texts of any length, cut in any way. A job is begun and
continued by the actions of its own kind (`InitOfKind`, `NextOfKind`), so
each kind has an invariant of its own, which says nothing of the other jobs.

- `SetsAreTheirLists`: `Spec => []RangesAreTheSet`, for any width of UIDs. `SetInv`
  says that the ranges that have ended and the one that is being built name the elements of
  the sorted list up to `at`, that the former are in order, and that between each of them and
  the next is a gap. A repeated number and the largest one are the cases that a range must survive.
- `SearchesFindFirst`: `Spec => []FindsFirst`, for any size of the buffer, any token that fits
  a half of it, and short reads wherever they happen. `SearchInv`: what the buffer holds at its
  beginning is the text from `offset` on (behind a short read from a file the old bytes stay, and
  nothing is said of them), and no place of the token from the start on is before `offset`.
  That a half is as long as a token is why the window may slide by one half.
- `FiltersAreWhole`: `~SplitAtDots => (Spec => []FilteredAsWhole)`, and for the three filters that
  do not double dots without this condition. `FilterInv`: the object holds the last two characters
  of the text read so far, and its output is `FlattenSeq` of what each of them becomes
  (`SoFar`), a CR at the end counting as nothing. The condition is that of
  `text_dots`: without it the property is false.
- `RepliesAreMessages`: `Spec => []ContentIsMessage`, for all messages, whatever lines of theirs
  look like the end mark or its beginning. Three facts meet in it.
  - What is sent (`Sent`, `WireIs`): in an answer with its dots doubled, a dot after LF comes with
    another one, but for that of the end mark. So no place of the text before its end ends
    with CR LF . CR LF, nor with LF . LF (`SentMarks`), and taking out the second dots gives
    the answer back, line end and all, up to the mark (`WiredTwice`).
  - What is held back (`HeldAt`, `Tracks`): each stop filter holds a beginning of its sequence, and
    what it has passed on with what it holds is all it was given (`Cut`). It is *not* always the longest
    beginning that it could hold, as the filter starts again after a mismatch and does not look for a
    shorter one in what it held. So an invariant is needed that says that it does not miss the end:
    once the end mark has begun, the first filter holds exactly what has come of it (`Tracks`,
    `StopTracks`). It is true because what it holds when the first CR of the mark comes does not go
    on with CR: CR LF . would be a dot after LF that was not doubled.
  - What has been given out (`Given`): nothing before the first line is complete; then what came
    through the last filter, without that line.

  `ReplyInv` says this of an object that reads; of one that is done, that the caller has the
  message; of one that was refused or timed out, that there was a refusal and that nothing was
  given out. At the end of its input the second filter gives what it held, which is the
  last of the message (`EndsThere`), and a time-out cannot happen to an answer, whose end the
  first filter has seen by then (`ReplyInvTimesOut`).

- `EncodersFit`: `Spec => []EncodedFits`, for base64 and quoted-printable, any text and any way to cut
  it. `EncoderInv` says of what is written so far that it is `Mailable`: its lines keep the
  limit, the last one has no more characters than the encoder counts, no line begins with a dot, and a space
  comes before a line end nowhere but, perhaps, at the very end, where it means that the byte to come is the
  space that waits in `carry`. The bound on the size is kept by byte (three characters at most) and by
  group of three (four letters). The encoders decide on a soft line break after they write a byte, so
  the invariant leaves room on the line for the next one: two characters less than the limit in quoted-printable
  (`QPState`), four letters in base64 (`B64State`).

- `DecodersUndo` (in `RoundTrip_proofs`): `Spec => []RoundTrip`, for the three encoders, any
  text, any limit on lines and any cuts of both streams, those in the middle of an escape or of
  four letters too. The decoder is not inverted as a whole. It is an automaton that reads a
  character at a time (`DecodeNext`), and of what is written so far it is said that the
  automaton goes from its beginning to the bytes encoded, with nothing in its carry
  (`StandsFor`). Each thing an encoder writes (a letter group, a byte, an escape, a soft line
  break, a line end) is then a turn of the automaton of its own, and turns compose
  (`DecodedTo`). `RoundInv` says that the text read so far is what this gives, with the bytes
  that wait in the encoder; while it decodes, that the decoder is at a place of the automaton's
  way to the whole text. A line of uuencode is decoded in one turn, so `UUInv` is about turns:
  what is written so far can be gone through from its first character (`Traced`), a turn being a
  line's end, the prelude or a whole line, whose length is a multiple of three (`UULineIs`,
  `UUDataIs`), and the decoder is always at one of the places between two turns.

The lemmas on `FlattenSeq` (`FlattenOne`, `FlattenTwo`, `FlattenLast`) carry most of this: the library defines it
by recursion, and they say that flattening two sequences of pieces, one after the other,
gives the two texts, one after the other. `StoppedSteps` does the same for the loop of a
stop filter, which is a recursive function for that reason, and `QPSteps` and `Base64Steps` for the loops
of the encoders.

*Assumptions*: a piece has at least one byte and `UidBits` is positive; texts, tokens and the
lines of messages are sequences of bytes (`FilterTextsAssumption`, `SearchAssumption`,
`MessagesAssumption`), numbers and UIDs are numbers, a UID at most the largest of its width or the
sign for one that is none (`ListAssumption`); a token is not empty and fits half the buffer: to any
other `findNext` answers at once that there is none (`parserInputStreamAdapter.cpp:101`). A limit on lines
is not zero (`EncoderAssumption`), from which `qpEncoder::encode` would take one without a sign; a limit
below five is not kept: a dot at the beginning of a line goes on without a look at the length, so that
`=2E=3D=` may be a line, of seven characters (`KeepsLines`).

A limit for uuencode is at least two, as with one `encodeUU` would go on reading nothing.

*Not proved*: `PartsSurvive` is a search within what a generator made, for every choice of boundary; it needs an
induction whose statement is nearly as long as the code.
`JobsEnd` is liveness.

## 9. What is not modelled

The map names what is modelled line by line, and covers a small part of the
repository: most of its code is sequential, keeps no state between calls, and is what
unit tests are for. By component (`PROJECT.json` has all):

- *IMAP grammar and body structure, MIME headers, words, dates, addresses, paths, URLs*:
  parsing and generation of text, a function of its input. A bounded check over short texts
  would repeat the unit tests, and a faithful one would be as long as the code.
  Nested headers and bodies of parts, the 256 bytes that the guess of a
  boundary looks at, encoded words and runs of white space in prologs and epilogs, and `readMultilineResponse` are left out likewise.
- *Digests, charset conversion, content handlers, builders, MDN*: bit-level algorithms with test
  vectors, loops around iconv or ICU, data holders.
- *TLS sessions, certificates, SASL mechanisms*: thin layers over libraries that are not here.
- *Sendmail transport, platform handlers, service core, IMAP store*: thin wrappers and
  registries. The life of IMAP folders under their store and the polling loops of sockets are
  open (row 7 of the plan): a blocking `posixSocket::sendRaw` writes without reading, and a
  peer that does the same blocks both.
- *Creating, renaming, destroying folders* of IMAP and maildir; fetched contents; the text of commands.
- *Vendored code, build files, examples*.

## 10. Running

    tlc -config SMTPLockstep.cfg MCSMTPTransport.tla
    tlapm SMTPTransport_proofs.tla

and likewise with the other modules of theorems: `MaildirFolder_proofs`,
`POP3Folder_proofs`, `IMAPFolder_proofs`, `Connections_proofs`, `Texts_proofs` and
`RoundTrip_proofs` (the longest), `Induction`.

| Module | Configurations | Distinct states |
|---|---|---|
| `MCSMTPTransport` | `SMTPLockstep`, `SMTPPipelined`, `SMTPPipelinedReplies` (violation) | 0.4 and 0.9 million |
| `MCMaildirFolder` | `MaildirFolder`, `MaildirShared`, `MaildirUndelete`, `MaildirNumbers` (violations) | 0.2 and 0.4 million |
| `MCIMAPFolder` | `IMAPFolder` | 2.4 million |
| `MCPOP3Folder` | `POP3Folder` | 0.6 million |
| `MCConnections` | `Connections` | 41 thousand |
| `MCTexts` | `Texts`, `TextDots` (violation) | 0.4 million |

Each takes less than two minutes with two workers. Deadlock is not
checked: an application may stop calling, and a job that is done stops. Operators
marked "Slip" are plausible mistakes in the definition that follows them; each
breaks a property of a passing run when it takes the definition's place.
