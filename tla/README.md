# Verification of django-fast-multipart

This directory holds a TLA+ model of django-fast-multipart, the TLC runs that
check it on small instances, and proofs that TLAPS checks for every value of
the constants. Paths such as `multipart.rs:458` refer to
`rust/src/multipart.rs`, `src/django_fast_multipart/parser.py`,
`fuzz/fuzz_targets/multipart_parser.rs` and so on of the repository.

## 1. The system

A request body travels through three parts:

    wsgi.input --read--> _parse (parser.py) --feed/feed_eof/finish--> MultipartParser (multipart.rs)
                            |    ^                                          |
                            |    +------- batches of events ----------------+
                            +--calls--> upload handlers (Django or the project's own)

**Sans-IO parser** (`multipart.rs`). An object that is fed chunks.
*State*: one of Preamble, Header, Body, Discard, End; the buffer of bytes that
are not classified yet; the headers of the part being read and what its header
block has been charged (`current_headers`, `current_total_header_size`); whether
a complete header block still waits for its Begin (`pending_headers`); the
bytes fed and whether the end was announced.
*Operations*: `feed_map_data`, `feed_eof_map_data`, `finish`. `feed` appends the
chunk and calls the handler of the current state until a handler reports that
it made no progress; what the handlers push is returned as one batch, or lost
when one of them fails. A boundary token counts wherever it occurs, not only at
the start of a line, and the segment after a token that opens no part is
reported as one Raw event: that is how Django's `BoundaryIter` reads a message.
*Hard*: every byte position is a possible chunk edge. A token, the line end
before it, its suffix, a header line and a header block may each be cut, and
everything that is not decidable yet has to be retained, neither delivered nor
charged to a limit.
*Correct means*: the events do not depend on the chunking; they form a legal
sequence at every moment; nothing is delivered that is later found to belong to
a delimiter; what is buffered is bounded; `feed` returns.

**Django adapter** (`parser.py`, `RustMultiPartParser._parse`).
*State*: `current_part`, the field and file counters, the bytes charged to
fields, `_unfinished_upload`, `terminal_raw`, POST and FILES.
*Operations*: one loop over the batches of `feed`, one over the batch of
`feed_eof`, `finish`; per event the opening, filling and finishing of a part;
the cleanup of three except clauses and an else clause.
*Hard*: every call of an upload handler may raise `SkipFile`, `StopUpload`,
`StopFutureHandlers` or anything else, between any two events, with other
handlers before and behind it in the same loop; the event source may raise at
any moment; the field-count limit depends on how the message ends.
*Correct means*: POST is exactly the named fields; each limit is enforced at
its boundary and never early; each handler sees a legal sequence of calls with
contiguous offsets; an upload that was started is completed or interrupted,
whatever way the request takes.

**Base64 decoder** (`_Base64Decoder` of `parser.py`): buffers encoded bytes of a
file part to groups of four; must not depend on the chunking.

**Fuzz target** (`multipart_parser.rs`): parses each request twice, in one chunk
and in the chunk sizes given, and asserts that the outcomes agree.

**Python bindings** (`bindings.rs`, `lib.rs`): convert arguments, events and
states. **Benchmarks, documentation, release workflows**: no part of the
behaviour.

**Header options** (`headers.rs`, `parse_options_header`): a pure function that
the adapter does not call. It scans a value twice by different rules, for the
semicolons outside quotes and for the escapes inside them; the two have to agree.

**Middleware** (`middleware.py`). One instance serves all requests. It assigns the
parser class to a multipart request, at once in synchronous mode and when the
coroutine is awaited in asynchronous mode; any layer around it may read POST
first, and any layer inside may assign another class. *Correct means*: a body
first read inside is parsed by the class that was chosen last, and other requests
are left alone.

There is no thread, lock or persistent state in this code: one request has one
parser and one adapter and they run in one thread. The interleavings that matter
are those of chunk edges with parser states, of the event source's failures with
the adapter's statements, of the handlers' answers with both, of events still to
be handled with the parser that has moved on, and, in the middleware, of requests
with each other and with the layers around it.

The decoder leaves validation to `base64.b64decode(..., validate=True)`, whose
versions differ on padding signs after a complete group: some reject them, others
skip them, however many. Both are modelled (`lenient`). With the latter, the
decoder accepts four such signs if they come in one chunk with the group before
and rejects them otherwise; this is the only exception in `ChunksDecodeAsOne`.

## 2. Modules

| module | what it is |
|---|---|
| `MultipartBytes` | byte strings and the pure functions of `multipart.rs`: `Find`, the suffixes of a delimiter, `BodyDataEnd`, `PartialSuffixLength`, trimming |
| `MultipartParser` | the parser as a state machine: `Feed`, one action per outcome of each `handle_*`, `FeedEof`, `Finished` |
| `EventStream` | the abstract specification: a growing, well-formed sequence of event kinds that stops after the end of input or an error |
| `MultipartProperties` | the parser's invariants, the refinement, progress and return of `feed` |
| `MultipartReference` | the meaning of a whole message, defined on the message and without chunks: the segments between tokens, what each yields, whether the message is complete |
| `Request` | the body of a request, fed to the parser in chunks of any size; what the fuzz target and the composition share |
| `FuzzTarget` | the two passes of the fuzz target around the parser, and its assertion |
| `UploadAdapter` | `_parse` and everything it calls, with an arbitrary event source and arbitrary handlers |
| `UploadProperties` | the properties of the adapter |
| `PartHeaders` | what the adapter reads of a part's raw header fields: `_parse_headers`, and what `_begin_part` asks of its result |
| `Upload` | the composition: whole requests through `MultipartParser` and `UploadAdapter`, its refinement of the adapter alone, and that a request ends |
| `MessageProperties` | the composition's properties that speak of the bytes of the request: POST and the limits against `MultipartReference` |
| `Base64Decoder` | `_Base64Decoder`, fed in pieces, against what decoding all at once gives |
| `HeaderOptions` | `parse_options_header`, against quoting and plain text |
| `Middleware` | `FastMultipartMiddleware` among the layers around it |
| `MCParser`, `MCFuzz`, `MCUpload`, `MCMessage`, `MCBase64`, `MCHeaderOptions`, `MCMiddleware` | instances for TLC |
| `MultipartParserProofs` | proofs about the parser: lemmas about the pure functions, types, event protocol and refinement, progress, the header account and the limits |
| `ReferenceProofs` | lemmas about `MultipartReference`: its functions by their equations, the tokens, segments, blocks, bodies and events of a message, and what a window of its bytes shows of them |
| `ReadingProofs` | the proof that the parser, fed in chunks, reads what `MultipartReference` defines |
| `UploadProofs`, `FieldProofs` | proofs about the adapter: event protocol, types and the effect of each action; what becomes of an upload and of the counts; what the fields come to |
| `CompositionProofs` | proofs about the composition: that it implements the adapter, when a header limit refuses a request, that POST is the fields of the message, and that the field limit is that of its segments |
| `Base64Proofs`, `MiddlewareProofs` | proofs about the base64 decoder and the middleware |

### Parser: state and actions

The variables `state`, `buffer`, `size`, `headers`, `total`, `pending`, `eof` are
the fields of the struct. `phase` says whether a call is running (`feeding`), and
whether one has failed (`raised`); `events` is the `Vec` the running call fills
and `received` is what the caller has been given so far. The limits that are
`Option<usize>` are sets: empty for `None`.

| code | actions |
|---|---|
| `feed_map_data`, entry | `Feed` |
| `feed_map_data`, one turn of the loop | `Loop`, the disjunction of the next five rows |
| `handle_preamble` | `PreambleToken`, `PreambleIncomplete`, `PreambleScan` |
| `handle_header` | `HeaderBoundary`, `HeaderEnd`, `HeaderLine`, `HeaderPartial` |
| `handle_body` | `BodyAwaitsToken`, `BodyIsRaw`, `BodyToken`, `BodyIncomplete`, `BodyScan` |
| `handle_raw_segment` | `RawHeaders`, `RawToken`, `RawPartial` |
| `handle_raw_boundary`, and the same match in the other handlers | `RawBoundary`, `AfterToken` |
| `Ok(true)`, `Ok(false)`, `Err` | `Continue`, `Return`, `Raise` |
| `feed_eof_map_data` | `FeedEof` |
| `finish` | `Finished` (it only reads `state`) |

A byte is a model value: CR, LF, dash, space, tab, form feed, colon, one for
each byte of the boundary, and one for all others. No code tells two of the
others apart, apart from the boundary itself. `saturating_add` and `usize` are plain naturals: the
sums are bounded by bytes in memory. A second `feed_eof` returns an empty batch
and changes nothing, so it is no step. A caller drops a parser that has raised
(`parser.py:217-222`, and the fuzz target), so nothing follows `raised`.

### Adapter: state and actions

`pc` is the loop or statement `_parse` is at and `at` the handler whose turn it
is, so that each call of a handler is one step; what a handler may do is a
choice in that step. `raised` is an exception that went through
`_abort_upload`, `escaped` one that no except clause of the try statement saw.
`delivered` (the events) and `heard` (the last call each handler got, and how many
times on end it got just that, so that a repeated call is seen) are history.

The module ends where `_parse` does. The class inherits `parse()` from Django, which
calls `_parse`, and on any exception closes the files of the handlers
(`_close_files`) and raises it on. So a file that is open in `escaped` is one that
`_parse` leaves to that caller.

| code | actions |
|---|---|
| before the try statement | `BeforeParsing` |
| `read`, `feed` or `feed_eof` raise | `SourceFails` |
| `PartBegin`: `_open_part`, `_begin_part` | `PartBegin` |
| `_start_file` | `NewFile`, `LoopEnds` |
| `PartData`: `_receive_part_data` | `PartData`, `ReceiveChunk`, `LoopEnds` |
| `PartEnd`: `_finish_part` | `PartEnd`, `FileComplete`, `NobodyReturnsFile` |
| `RawPart`: `_record_raw_part` | `RawPart` |
| `feed_eof`, `finish` | `FeedEof`, `Finish` |
| else clause, `_interrupt_upload` | `Succeed`, `InterruptUpload` |
| except clauses, `_abort_upload`, `_drain_input` | `Abort`, `AbortUpload`, `Stop` |
| `upload_complete` | `UploadComplete` |

In `UploadAdapter` the parser's place is taken by any source of events that keeps
`EventStream!WellFormed`, which the parser is proved to keep (`Refinement`), and
by the four shapes a batch of `feed_eof` can have (`EofOutcomes`). `MaxEvents`, which
has a bound on the events or none, is for TLC alone. Where one batch ends is arbitrary, and `SourceFails` may come between any two events, so the
events that a failing `feed` loses are covered. Names and data are lengths. What
is read of a header block is a record: the stripped field name (none, empty, or
its length), whether there is a usable file name, and whether the part is base64.

Each event action is a `Take` of the event from that source and a `Handle...` of
it, and `FeedEof` is `EofReturns` of an outcome. `Upload` keeps the handling and
replaces the source.

### Composition: state and actions

`Upload` has the variables of both modules (the adapter's `eof` is `ended` there)
and the request with what is still unread of it.

| code | actions |
|---|---|
| `read` and the entry of `feed`, once a batch is used up | `ReadChunk` |
| the parser's loop | `ParserLoops` |
| the body of the two `for event in ...` loops | `TakeEvent` |
| `feed_eof`, with `parser.state` before and after | `FeedEnd` |
| an exception from `read`; from `feed` or `feed_eof` | `ReadFails`; `ParserFails` |
| the other statements and the handlers | `AdapterSteps` |

`ImplementsAdapter` is the refinement: the adapter on the real parser does only
what `UploadAdapter` does, so its event source, the order and number of events
and `EofOutcomes` are no assumption: TLC checks it and `AdapterRefinement` proves it. `PartHeaders` joins the two at the
header fields. A header name is one byte and a value a few bytes that each stand
for a fact (it has a file name, it cannot be decoded); the decoding and the
sanitizing themselves are Django's. The upload handlers answer in every way here,
too, and so does the decoder of base64: it may keep the data back, fail, or hand on
any number of bytes up to what the data make with the three characters that it may
have kept before, which may be more than the data that came
(`ReceiveFileData`).

### Middleware and header options

In `Middleware`, `Call` and `Await` are `__call__` and the body of the coroutine;
`Read`, `Assign` and `Leave` are the layers around, which read and assign whenever
they have control. `HeaderOptions` has no actions of its own: its specification
enumerates texts.

Definitions whose name has a suffix after an underscore (`Exceeds_AtLimit`) are
variants with one plausible defect. No specification uses them; each shows that
a property notices that defect.

## 3. Runs

| run | instance | what it shows |
|---|---|---|
| `delimiters` | `MCParserDelimiters.cfg`: up to 13 bytes in fragments of delimiters | `TypeOK`; `BodyMeansOpenPart`: the state the handlers test agrees with the events sent; `NothingChargedOutsideHeaders`; `ImplementsEventStream`; `LoopProgresses`; `FeedReturns` |
| `requests` | `MCFuzzRequests.cfg`: every opening followed by up to 4 of 8 fragments, and padded tokens; the boundary `-`, whose token `---` overlaps itself; read in one chunk, and in chunks of 1, 3 or all the bytes left in any order; header limit 6 | `ParsesTheMessage`: the events equal the reference reading; `NothingIsTakenBack`: at each moment what was delivered is a prefix of it; `ChunkingIsInvisible`; `BegunPartsFitTheLimit`, `RefusedOnlyOverTheLimit`: what the limit refuses, which is a segment over it by itself or, while more is to come, with the beginning of the token behind it; `BodyIsNotAccumulated`: a body is not retained beyond one undecided delimiter |
| `lines` | `MCFuzzLines.cfg`: header lines in up to 5 fragments, in chunks of 1 to 3 bytes, limits of 1 line, 2 bytes a line, 10 a block, 13 a request | `SizeLimitIsExact`: refused in every chunking, or parsed as without `max_size` and with equal outcomes; `DeliveredHeadersWithinLimits` |
| `fuzz_assertion` | `MCFuzzAssertion.cfg`: openings and up to 3 fragments, one-byte boundary, header limit 6 | a violation of `FuzzAssertion`, see section 6 |
| `upload_limits` | `MCUploadLimits.cfg`: one handler, up to 6 events before the end, every kind of part, at most 2 fields, 1 file, 8 bytes | `TypeOK`, `DefensiveErrorsUnreachable`, `PostIsWhatArrived`, `MemoryLimitIsExact`; `CountLimitsAreExact`: what has arrived passes exactly if it is within the limits, with one field more for a message that is cut short or ends with the bare token (the cases of `test_truncated_field_uses_missing_terminal_raw_allowance` and `test_exact_boundary_token_at_eof_does_not_add_raw_field`) |
| `upload_handlers` | `MCUploadHandlers.cfg`: two handlers, up to 4 events before the end, fields, encoded files (which do whatever plain ones do) and files with an empty name, no limits | `UploadsAreSettled`, `RaisedIsCleanedUp`; `HandlerContract`: what one handler hears, repeated calls included, whatever the others do; `HandedOverFilesStayOpen`: a file in FILES is closed only by a skip, a stop or a failure |
| `message` | `MCMessage.cfg`: requests of up to 2 segments with each of 9 endings: fields and files, one base64 file or field or file with an empty name, or segments that are fields, nameless, without a body, raw, or with three dispositions, the last that counts with an empty name; header blocks cut short around the limit of 20, and up to 6 further header lines; chunks of 2 bytes or all the rest; one handler, at most 1 field and 1 file | `PostOfTheMessage`: POST is the fields of the message; `FieldLimitOfReportedSegments`: the field limit is that of the message; `HeaderCountIsRedundant`; `ImplementsAdapter`; `RequestEnds` |
| `message_uncounted` | `MCMessageUncounted.cfg`: the requests of up to 2 segments that are no files, in one chunk | a violation of `FieldLimitOfTheMessage`, see section 6 |
| `base64` | `MCBase64.cfg`: all texts of up to 8 characters in every chunking | `ChunksDecodeAsOne`, `CompleteGroupsAreDecoded` |
| `header_options` | `MCHeaderOptions.cfg`: all texts of up to 6 of 7 characters as a parameter | `QuotedTextIsRead`, `PlainTextIsKept`, `NoEscapeIsLost` |
| `middleware` | `MCMiddleware.cfg`: two requests (symmetric), both modes, both kinds of content | `ParsedAsChosen`, `OthersAreLeftAlone` |

**Why the bounds are enough.** The parser's handlers look at one token, one line
end or one header end at a time and keep no memory of a part once it is over
(`NothingChargedOutsideHeaders` is the proved form of this), so what can go wrong
needs one delimiter, its neighbours, and the states before and after. Thirteen
bytes hold two delimiters and a header block with a one-byte boundary; the
openings of `MCFuzz` put the parser into each state, and four fragments reach
the one after the next and what the end of the input makes of it: with three, the
token that is charged at the end of the input (section 6) does not show. The chunks of the parser runs cut between all bytes of a
delimiter's suffix and around the token; a cut inside a token is made in the
fuzz runs, where a chunk may be one byte. Sizes larger than the limits are reached by every run that
has limits. In the adapter, six events are two fields with data, or a field, a
file and a raw segment, and `feed_eof` adds up to two. Two handlers are enough
for one that answers before and one that answers after; only neighbours in the
loop affect each other. In the composition, two segments and an ending are two
state changes of the parser and one of the ways in which the field count ends;
with a maximum of one field they lie on both sides of the limit. `ReadFails` may
come between any two batches there, and the handler answers in every way. Requests of the
middleware share nothing that changes, so two of them show every interference,
and the proof covers any number.

**Fairness.** Liveness is claimed for `feed`, under `WF_vars(Loop)`: the
loop of `feed_map_data` is sequential code that calls no one that could block, so a
pass that can be made is made. Nothing is assumed of callers: they may stop
feeding. It is claimed for a whole request (`RequestEnds`) under weak fairness of
`UploadNext`: parser and adapter are one thread, and the reads and the handlers it
calls return or raise. A handler or a client that never answers is Django's and
the server's to time out; `_parse` has no timeout. The other runs check safety and need no
fairness. The final states of a request stutter explicitly (`Dropped`, `Done`,
`Stopped`, `TargetReturns`), and deadlock is checked, except in `header_options` and `middleware`,
where a text has its full length and a request may have left for good.

## 4. Proofs

| theorem | module | statement |
|---|---|---|
| `TypeCorrect` | `MultipartParserProofs` | `Spec => []TypeOK` |
| `OpenPartCorrect` | `MultipartParserProofs` | `Spec => []BodyMeansOpenPart` |
| `Refinement` | `MultipartParserProofs` | `Spec => ImplementsEventStream` |
| `LoopEnds` | `MultipartParserProofs` | `Spec => LoopProgresses` |
| `AccountCorrect` | `MultipartParserProofs` | `Spec => []NothingChargedOutsideHeaders` |
| `DeliveredHeadersCorrect` | `MultipartParserProofs` | `Spec => []DeliveredHeadersWithinLimits` |
| `BodyBounded` | `MultipartParserProofs` | `Spec => []BodyIsNotAccumulated` |
| `ParserCorrect` | `ReadingProofs` | `FuzzSpec => []ParsesTheMessage` |
| `NothingTakenBack` | `ReadingProofs` | `FuzzSpec => []NothingIsTakenBack` |
| `PartsFit` | `ReadingProofs` | `FuzzSpec => []BegunPartsFitTheLimit` |
| `RefusalsCorrect` | `ReadingProofs` | `FuzzSpec => []RefusedOnlyOverTheLimit`, given `TotalIsDecisive` |
| `DefensiveCorrect` | `UploadProofs` | `Spec => []DefensiveErrorsUnreachable` (the adapter) |
| `UploadTypeCorrect` | `UploadProofs` | `Spec => []TypeOK` |
| `SettledCorrect` | `UploadProofs` | `Spec => []UploadsAreSettled` |
| `RaisedCorrect` | `UploadProofs` | `Spec => []RaisedIsCleanedUp` |
| `HandedOverCorrect` | `UploadProofs` | `Spec => HandedOverFilesStayOpen` |
| `ContractCorrect` | `UploadProofs` | `Spec => HandlerContract` |
| `CountLimitsCorrect` | `UploadProofs` | `Spec => []CountLimitsAreExact` |
| `MemoryLimitCorrect` | `FieldProofs` | `Spec => []MemoryLimitIsExact` |
| `PostCorrect` | `FieldProofs` | `Spec => []PostIsWhatArrived` |
| `AdapterRefinement` | `CompositionProofs` | `UploadSpec => ImplementsAdapter` (the composition) |
| `HeaderCountCorrect` | `CompositionProofs` | `UploadSpec => []HeaderCountIsRedundant`, given `AdapterLimits` |
| `MessagePostCorrect` | `CompositionProofs` | `UploadSpec => []PostOfTheMessage` |
| `FieldLimitCorrect` | `CompositionProofs` | `UploadSpec => []FieldLimitOfReportedSegments` |
| `ChunkingCorrect` | `Base64Proofs` | `Spec => []ChunksDecodeAsOne` (the base64 decoder) |
| `GroupsCorrect` | `Base64Proofs` | `Spec => []CompleteGroupsAreDecoded` |
| `RightParser` | `MiddlewareProofs` | `Spec => []ParsedAsChosen` (the middleware) |
| `OthersUntouched` | `MiddlewareProofs` | `Spec => []OthersAreLeftAlone` |

The seven of `MultipartParserProofs` hold for every alphabet, boundary, limit and set of chunks that satisfy the
assumptions `ByteAssumption` (the special bytes are seven different ones),
`BoundaryAssumption` (1 to 201 bytes, the constructor's check),
`ChunksAssumption` and `LimitsAssumption`.

`TypeCorrect` carries the arithmetic: every index found lies in the buffer, so
every slice and drain is in range, and every subtraction of lengths is of a
smaller from a larger one. `MultipartParserProofs` begins with these facts of the pure
functions. The searches among them (`Find`, the suffixes, the trimming) choose the least
or greatest position with a property; that such a position exists is induction over
positions, which `LeastElement` and `GreatestElement` make first-order: the
induction is on a set of numbers that is said to be empty.

`BodyMeansOpenPart` and well-formedness are not inductive alone. A handler pushes
Data because `state` is Body and `pending` is false; that this is legal depends on
the whole history `received \o events` ending inside a part; that this survives
the end of a call depends on `events` being empty between calls; and an End is
legal only because `pending` is never set outside Body. `ProtocolInv` joins these:
`TypeOK`, the history is well formed, it ends inside a part exactly in a body
whose Begin was sent, `pending` only in Body, `events` empty outside a call. Each
`handle_*` has a lemma that it keeps the invariant; the refinement then follows
step by step, a pass of the loop being a stutter and a return a `Deliver`.

`LoopEnds` proves the measure `PassesLeft` for every pass that goes round. It has
to count more than bytes: a raw segment that finds a header block hands the same
buffer to the header state without consuming anything, and is charged one pass
for it. The measure is the part of `FeedReturns` that can fail; the step from it
to the temporal formula is left to the run `delimiters`.

`DeliveredHeadersCorrect` follows a header block through three variables: it is
read into `headers`, becomes a Begin in `events` and then the caller's in
`received`; `BlocksFit` says that what is in each fits. The account of the block is
another matter: inside the loop `total` may be over the limit, because `Open`
adds the padding it consumed and leaves the comparison to a later pass.
`WithinTotal` claims it only between calls and of a complete block.

`BodyBounded` is a claim about the last pass of a call. What `BodyAwaitsToken` and
`BodyIncomplete` retain is what `BodyDataEnd` or the undecided token left of the
buffer: less than a delimiter, or a delimiter whose suffix is undecided, and that
is a lone dash, or padding, which is held to the header limit
(`UndecidedDelimiter`, `LoopBoundsBody`).

`ParserCorrect` and `NothingTakenBack` are what the parser is for: whatever the
request and its chunks, and whatever the limits, what a caller is given is at every moment
the beginning of what the complete request means, and at the end all of it, with the answer
of `finish` that it deserves. They need `RequestsAssumption` (requests are bytes, chunks are
not empty) and `FuzzAssumption`: no byte of the boundary is CR or LF, which is so of the
literal in the fuzz target. With a CR or LF in the boundary, a line end of a header could be a part of the
token that follows it, and the code and the reference would have to agree on which comes first.

Neither is inductive: what is right to send now depends on how bytes were read that the
parser has dropped, and on bytes that it has not seen. `ReadInv` says where in the request
the parser is (`At`): the first `f` bytes have been fed and the buffer is the slice from `p`
to `f`; `p` lies in segment `k`, or at its end; and what has been told, joined as
the target joins it, is what the segments before `k` mean and, in a body whose Begin was
sent, that Begin and the data up to `p`. For each state a conjunct adds what the
handlers have found out: in Header, the fields of the lines before `p`, and that the suffix
was open or a block follows (`InHeader`); in Body with its Begin withheld, that
the block has just ended (`InBegin`); in Body, that the line end which the delimiter
takes with it has not been sent, wherever it may be (`DataCut`); in Discard and End, that
the segment is no part whatever follows (`InRaw`). `Quiet` is for the end of the input: a
call of `feed` returns only when more bytes are needed, so what it leaves undecided is
undecided in the message as well, and `feed_eof` and `finish` may conclude.

The proof has three parts. `ReferenceProofs` turns the reference, whose functions are recursive
over positions, into equations (`TokensWithinEquations`, `FieldsWithinEquations`,
`ToldEquations`); an iteration is built from its prefixes by induction said of a set
(`EveryNatural`, `Iteration`). From them come the segments: no token begins inside one
(`FirstToken`), and the first token found in a window ends the segment (`TokenInBuffer`), so
that a search of the buffer finds what the reference finds in the message. Then what is
decided in the buffer is decided in the message: an open, closing or unusable suffix stays
so when bytes are added (`OpenAhead`, `DecidedAhead`), and the line end before a token
is found although the data before it is gone (`DataEndAgrees`). `ReadingProofs` has a lemma for
each arm of each `handle_*` (`LoopReads`), for `feed` (`FeedReads`), and for `feed_eof` and
`finish` in each state (`EofReads`). That a sequence of joined events only grows, and by
what, is `JoinData` and `ProducedIsDelivered`.

`PartsFit` and `RefusalsCorrect` hold the header limits against the message. Between calls
the account of a block is proved above, but here it is compared with lengths of segments
that have left the buffer, so `ReckonInv` adds to `ReadInv` what has been charged, in terms
of the message (`Charged`). Every block before segment `k` fits (`EarlierFit`); in Body the
open one fits, too; in Header, `total` is the distance from the token to `p` and
leaves room for three bytes of each field read, or it is zero where a block without an
empty line has ended and the next token heads the buffer (`HeaderAccount`). What has been told
is counted by its Begins, one for each segment with a block (`BeginsOfTold`); joining
Data changes no Begin (`BeginsOfJoined`), so the parts begun are the first of the message,
and they fit (`BegunFit`). Each arm of each handler has a lemma for what it charges
(`LoopCharges`).

`RefusalInv` adds that a refusal is right when it is made. Each place that raises a
header error has a lemma that some segment is over the limit (`LoopRefuses` for
`feed`, `EofRefuses` for `feed_eof`): what was compared with the limit is a part of what
that segment costs (`ChargeOf`), bytes included that the parser has not seen. What is
proved of a cut is no more than the code does: a segment without a block is charged
with the beginning of the token behind it if the chunk that is refused ends there, and this
can be what is over the limit (section 6, number 1); once all of the request is
fed, it cannot. `HasSegmentOverLimit` says it, in two flags for whether more is to
come and whether the end was announced. The theorem needs
limits that fit together, `TotalIsDecisive`: a line may be as long as the total, and so
many fields as to be too many cost more than the total, at three bytes each.
`AdapterLimitsDecide` proves it of the limits that the adapter computes
(`parser.py:42-43`); that is the claim of the comment there, that the count is only
reached when the aggregate limit is. The run `requests` has such limits (6, 9 and 99), too.

The three invariants are about the parser and the request that is read into it, so they are proved
for the parser's steps on a request (`ParseStep`), whoever calls. The fuzz target takes only those
(`FuzzStep`), and so does a request through the adapter (`UploadParses`).
`HeaderCountCorrect` is the claim of the adapter's comment for whole requests: with its limits
(`AdapterLimits`) the parser can raise for nothing but its headers, for the adapter feeds it
nothing after the end and sets no `max_size` (`RaisedInv`), and then `RefusalInv` says what
is over the total: a block, or a segment without one, the latter with the beginning of
the token behind it if the read that is refused ends there. What `FuzzAssumption` asks of the boundary, no line end in it, holds of the
adapter, too: Django refuses a boundary with anything but printable characters.

The nine theorems about the adapter hold for every number of handlers, every
answer they give, every limit, and every kind of part; all but the first need
`UploadAssumption`, that lengths and limits are numbers and a part has at most one
name. `DefensiveCorrect`: the
history alone does not say that a check cannot fire: the events of `feed_eof` are
handled one by one after the parser has returned them all, so the invariant is
that `delivered \o left` is well formed; and a file's end is in the history before
`file_complete` has returned, so what `part` has to do with the history depends
on the loop that `_parse` is in. `PartInv` says it for each. That the events of
`feed_eof` continue the stream (`EofBatch`) is proved of the adapter's model of
the parser; that the parser is such a source is `AdapterRefinement`.

The others rest on `BaseInv`, which joins this invariant to the types and to
`ControlInv`: while the try statement runs there is no exception, and the part
whose handlers are being called is an upload that `_unfinished_upload` knows of.
Each adds what the next step has to know of the handlers:

- `SettledInv`: the loops that call every handler start with the first, so its last
  call agrees with `_unfinished_upload` except in the middle of those loops, where
  its turn has passed (`FirstIsBehind`).
- `LastCallsInv`: `upload_complete` was heard only by handlers whose turn in that
  loop has come, and `upload_interrupted` only outside the try statement. With the
  closing of the files on the way into `aborting` (`ClosesFiles`) this gives
  `RaisedCorrect`.
- `UploadInv`: of an upload in progress, each handler that was told of it has an
  open file, has not completed it, and its counter in `current_part` is where its
  last chunk ended (`InStep`); a handler whose turn in `_start_file` is to come has
  not heard of the file (`Unheard`), which is the gap in which a `SkipFile`
  closes a file of an earlier upload. `HandedOverCorrect` and `ContractCorrect` are
  action properties: each step is checked from this.
- A call that repeats the one before it changes `heard`, too, in its count
  (`CallIsSeen`), so `HandlerContract` speaks of every call.
- `CountInv`: the counters are the numbers of events of their kind (`TallyInv`), none
  passes its maximum unseen (`AdmittedInv`), `terminal_raw` agrees with the
  last event and the way the input ended, and `exact_boundary_at_eof` is set exactly
  for the bare token (`TerminalInv`), and what passes the final
  count is within the maximum (`PassedInv`). That appending an event adds one to
  the cardinality of the set it belongs to is `CountsAppend`.
- `OverInv`: what was true where `TooManyFields` was raised: the counter was two over the
  maximum, or the check after the loop found it one over it with everything handled
  and a raw segment after the last part. `CountLimitsCorrect` needs it for the
  messages that may have one field more.
- `FieldInv`: `current_part` is the part that the history leaves open, with its name
  and what has arrived of its data (`OpenPartInv`); `_field_bytes` is what the fields
  that have ended cost, and with what has arrived of the open one that is within the
  limit (`MemoryInv`); a message that ended with the closing token has no open part
  (`EndsInv`), which `finish` relies on. `PostInv` says that POST has an entry for each
  field that has ended, at the place of its rank among them, and for the open one too
  once the input is handled to its end.

Both theorems of `FieldProofs` are about sums over the history, which the properties
define by a recursive function (`SumOf`). Its values are those of any function that
satisfies the equations of a partial sum (`SumIsPartial`); that there is one, and
what appending or exchanging a term does to the sum, is induction over positions,
said of a set of numbers (`Induct`) so that it needs no operator as parameter. A step
then changes one field: `EndedCost` for the account, `HoldsOneMore` for POST. The
properties describe a field's data and its end by counting events; that these are the
open and the ended parts of the invariant is a fact about well-formed streams
(`EndFollowsRun`).

`AdapterRefinement` is stated without the bounds that TLC needs (`Unbounded`): the
adapter's source may announce every part that a header block can describe (`Parts`),
data of every length (`DataSizes`), and any number of events (`MaxEvents`). The other
constants are arbitrary. The theorems about the adapter assume no more of its constants than
`AdapterAssumption` does in the composition, so they hold of whole requests.

The adapter handles the events of a batch after the parser has returned them all, and
it is in this gap that the two could disagree. `LinkInv` closes it. What has been
handled is the beginning of what was returned, event by event as the adapter sees
it, and after the end of the input `left` is the rest (`HandledInv`, `LeftInv`).
The parser hears of the end once, when everything has been read (`InputInv`). With
`ProtocolInv` each event is then one that the abstract source may give. For the end
of the input that is not enough: `EofOutcomes` relates the batch of `feed_eof` to
the parser's state before and after, and a part whose Begin is still withheld must not
have a token behind it in the buffer, or more than one event of the part would
come at once. `WaitInv` says that what is left there is shorter than a token; it
depends on how each pass of the last `feed` left the loop.

`MessagePostCorrect` joins the two halves of the system, again for `Unbounded`: what POST
says of the events that were handled (`PostCorrect`) it says of the segments of the request
(`ReadInv`). Once the try statement has ended without an exception, everything that the
parser returned is handled (`LastInv`, `AllHandled`), and joined it is what the message means.
But the fields of one are counted by event and those of the other by segment, and a field
may have come in any number of Data. So both are compared with a third thing: `Gathered`
runs through a sequence of events and lists header block and length of each field. That it
does not tell how data was cut is `GatheredJoined`; that it lists the fields of a stream as
`PostCorrect` counts them is `StreamListed`, and those of the message `MessageListed`. Two
lists with equal entries then give each field of the message its event (`ListedTwice`,
`FieldArrives`). `Gathered` exists because every action on sequences has a fold
(`FoldExists`), and `EverySequence` is the induction over sequences, said of a set. The name
and the encoding of a part are in its headers: what `_parse_headers` keeps is, for each
name, the last line that can be decoded (`LastValueIsFound`), and cutting trailing spaces
twice is cutting them once (`TrimEndTwice`). `SameNext` says that the adapter which
`FieldProofs` speaks of is the one in the composition, action by action.

`FieldLimitCorrect` says of the segments of the request what `CountLimitsCorrect` says of
events, with more care at the end, where the segment after the last token is counted
though the parser reports it only if it has a header block. What the events of a message are
charged is what its segments are (`ToldCharges`), and joining events does not change it
(`ChargedJoined`), so the counter is never above it (`CountIsReported`). What is left out of it
(`Unreported`) is one segment, but for two endings (`CountedMeans`, `ReportedEndings`): a
part that the end of the input cuts short, and the bare token that ends a part. The adapter must
tell these two from all others, and it has only its flags: an open part in its
history, and `exact_boundary_at_eof`. `EndInv` says that the second is set exactly when
the message ends with that token, which is a claim about `feed_eof`
(`BareEndIsHeard`): it leaves Body for End at no other ending. The converse for a
request that is refused is `OverInv`: the exception was raised with two fields more than the
maximum already counted, or in the final check, with all events handled, a raw
segment or the end of a part as the last of them, and the flag not set. The ending that
`UnreportedRaw` describes is the one where two segments are left out.

`ChunkingCorrect` and `GroupsCorrect` hold for every set of texts, and need that the four
kinds of character are different (`CharacterAssumption`). `DecoderInv` says, while
the part is open, where what has been fed has gone (`Held`, `HandedOn`): the
last characters, fewer than four, are the buffer; before them are whole groups of
digits, all of them decoded, or, once padding has been seen, the buffer is empty and
all of it is a text that ends with its padding. The rest is what `feed` does with a
buffer and a chunk, and what that says of a text of which they are only a part:

- `StrippedConcat`: the white space of two pieces can be removed piece by piece.
  `Stripped` is a recursive function, and the induction over its positions is said of
  a set of numbers (`EveryNumber`), as for the sums above.
- `DigitGroups` and `PaddedGroups`: what is accepted of the extended buffer is
  valid in the place where it stands in the text, and its length adds up.
- Whatever makes `feed` fail makes the whole text invalid, however it goes on: a
  character that is neither digit nor padding (`BadCharacter`), padding with another
  character behind it (`PaddingInterrupted`), two characters or more after the first
  padding sign (`PaddingTooEarly`), characters after a padded group
  (`ExcessIsRefused`). The last two fail for an interpreter that skips padding
  after a complete group: there, and only there, `HasPaddingGroup` is needed
  (`TooMuchPadding`, `GroupsOrPadding`).

`RightParser` and `OthersUntouched` hold for every set of requests and need only
that the parser classes are different (`MiddlewareAssumption`). What a read finds
depends on what was selected before it, so `Selection` says of every request that
is still unparsed which class would parse it: Django's while it is above or an
unawaited coroutine, and inside the last one chosen, or else the Rust parser.

**Model-checked only.** Liveness (`FeedReturns`, `RequestEnds`), which is beyond this
prover. The equality of two passes that a limit ends (`ChunkingIsInvisible`,
`SizeLimitIsExact`): for passes that none ends it follows from `ParserCorrect`, but that both are refused, and in the
same call of the same name, needs the converse of `RefusalsCorrect` for every place that raises. The header options, which scan a text twice
by recursion. The library's theorems of induction over data take an operator as parameter,
which the provers cannot instantiate.

## 5. What is not modelled

- *Bindings and `lib.rs`*: conversions. The callback that maps data runs inside
  `feed` and sees a slice; it changes nothing in the parser.
- *Middleware*: the refusal of a missing `get_response` at construction, and the
  marking of the instance as a coroutine function, which Django reads.
- *Django*: `parse()` around `_parse`, `_close_files`, `sanitize_file_name`, the
  streams and the upload handlers are external. `_close_files` is modelled by its effect, handlers by all
  answers they may give. The close of a file may raise (`CloseFails`), in each of
  the three places that call `_close_files`.
- *Texts*: error messages are told apart only where the code does
  (`RUST_HEADER_LIMIT_ERRORS` all become one message, so the three limits are one
  error here). Charset conversion and the content of header values are left out.
- *Content type, length and charset of a part* (`parser.py:275-288`): passed on to
  the handlers and never looked at.
- *`max_size` in the adapter*: the adapter does not set it; the fuzz target does,
  and the run `lines` is about that.
- *Backslashes in quoted values*: `NoEscapeIsLost` is about the end of a value, which is
  what the comment at `headers.rs:54` speaks of. A text behind a closing quote, as in
  `"a"\"b"`, is read by the two scans by different rules, and the repository says nothing of what it
  should be.
- *Padding after a raw segment's token* (`multipart.rs:483`): the code holds it to
  no limit of its own, so there is no bound to check.

## 6. Disagreements found

1. **Fuzz target, `multipart_parser.rs:139`.** `assert_eq!(contiguous, incremental)`
   does not hold of every request. In a raw segment (states Discard and End)
   `handle_raw_segment` looks for the next token and only if there is none
   charges everything buffered to `max_total_header_size` (`multipart.rs:454-459`).
   A segment that arrives whole is never charged; the same segment cut by the end
   of a chunk is charged, with the beginning of the next token. Run
   `fuzz_assertion` shows a request that one chunk carries through and pieces do
   not. `ChunkingIsInvisible` (run `requests`) states that this is the only way
   in which the chunking shows without a `max_size`.
2. **Comment at `parser.py:202-203`**: a partial suffix at the end of the input
   "remains in the DISCARD state and retains the normal terminal field-count
   check". It does after an open part. After a raw segment, `feed_eof`
   (`multipart.rs:160`) does not look for the token and returns no event, so that
   the segment before the suffix is missing from the field count. Run
   `message_uncounted` shows three raw segments, the last a partial suffix, that
   pass with a maximum of one field; with the suffix decided they are refused.
   `FieldLimitOfReportedSegments` (run `message`) states that this ending is
   the only one that is counted differently.

Three more things that properties have to allow for, without a run of their own (the
first is against the fuzz target's assertion, too; nothing is written of the others):

- *Errors with `max_size`.* It is checked against a whole chunk before any of the
  chunk is parsed (`multipart.rs:115-120`). A request over it whose header block is
  over a header limit, too, is `TooLarge` in one chunk and may be a header error in
  pieces, which the assertion of the fuzz target tells apart
  (`multipart_parser.rs:135-137`). `SizeLimitIsExact` asks of such a request only
  that both passes fail in a feed.
- *The token at the end of the input.* Where a raw block, that is a segment that
  began like a part but has no empty line, is followed by a token with an undecided
  suffix, the parser waits in the header state with the token in its buffer. If the
  input ends there, `check_eof_header_size` charges all of the buffer
  (`multipart.rs:333-336`), the token included, and refuses a request none of whose
  segments is over the limit. `HasSegmentOverLimit` has a case for it.
- *A block that exactly fills the limit* is taken by `feed` and refused at the end
  of the input (`multipart.rs:350`).

## 7. Plan

Done: every component that has behaviour, with the parser's abstract
specification and reference, the composition of parser and adapter and its
refinement of the adapter alone. Proved are all invariants of the parser by itself, its
refinement of `EventStream`, that it reads what the reference defines and whom its
header limits refuse, every property of the adapter, of the base64 decoder and of the
middleware, and of the composition its refinement of the adapter, POST and the
field limit against the message, and that the bound on the number of headers is redundant.

What remains is what section 4 names as only model-checked. The equality of refused
passes (`ChunkingIsInvisible`, `SizeLimitIsExact`) could be proved: it needs, for every
place that raises, that a request over the limit is refused wherever it is cut. Liveness
and the header options are out of this prover's reach.
