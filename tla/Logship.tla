------------------------------ MODULE Logship ------------------------------
(***************************************************************************)
(* The log shipper (internal/logship/logship.go): an io.Writer that splits *)
(* what it is given into lines and offers each to a bounded channel; one   *)
(* worker collects them in batches and posts the batches to omnilog with   *)
(* three attempts each; Close asks the worker to drain and waits for it,   *)
(* at most until its context ends.                                         *)
(*                                                                         *)
(* A text is a sequence of fragments and newlines.  From the moment it is  *)
(* split off, a line is known by its number, the place at which Write put  *)
(* it among all lines, so that two lines with the same text remain two.    *)
(* The mutex w.mu guards only the splitting, so that part of Write is one  *)
(* step and every offer to the channel is a step of its own.  omnilog is a *)
(* choice among the three things a POST can come to.                       *)
(***************************************************************************)
EXTENDS Integers, Sequences, FiniteSetsExt, Functions

CONSTANTS
    Writer,         \* goroutines that log
    Fragment,       \* what texts are made of
    Program,        \* Writer -> the sequence of texts it writes
    NL,             \* the newline, one of the fragments
    BatchSize,      \* Config.BatchSize
    BufferSize      \* Config.BufferSize

Attempts == 3

ASSUME ProgramAssumption == Program \in [Writer -> Seq(Seq(Fragment))]
ASSUME BatchSizeAssumption == BatchSize \in Nat \ {0}
ASSUME BufferSizeAssumption == BufferSize \in Nat \ {0}

VARIABLES
    todo,       \* what each writer has still to write
    buf,        \* w.buf, the beginning of a line
    offering,   \* Write's local: the lines it has split off and not yet offered
    ch,         \* the channel's buffer
    dropped,    \* w.dropped
    done,       \* w.done is closed
    worker,     \* "select", "drain", "final" or "exited"
    batch,      \* the worker's batch
    attempt,    \* the attempts post has made, or Idle outside post
    validURL,   \* http.NewRequest accepts the endpoint
    close,      \* the Close call: "no", "waiting", "nil" (the worker left) or "ctx"
    received,   \* the lines omnilog has, in the order of their first arrival
    split,      \* history: the texts of the lines Write has split off, by number
    queued,     \* history: the lines sent to the channel, in order
    givenUp,    \* history: the lines of batches that post gave up
    unanswered, \* history: the lines omnilog received in a post it did not answer
    before      \* history: the lines in the channel and the batch when Close was called

writeVars == <<todo, buf, offering, split, queued>>
closeVars == <<done, close, before>>
postVars == <<attempt, received, givenUp, unanswered>>
vars == <<writeVars, ch, dropped, closeVars, worker, batch, postVars, validURL>>

Idle == -1

Init ==
    /\ todo = Program
    /\ buf = <<>>
    /\ offering = [w \in Writer |-> <<>>]
    /\ ch = <<>>
    /\ dropped = 0
    /\ done = FALSE
    /\ worker = "select"
    /\ batch = <<>>
    /\ attempt = Idle
    /\ validURL \in BOOLEAN
    /\ close = "no"
    /\ received = <<>>
    /\ split = <<>>
    /\ queued = <<>>
    /\ givenUp = {}
    /\ unanswered = {}
    /\ before = {}

-----------------------------------------------------------------------------
(* Write *)

Ends(text) == {i \in DOMAIN text : text[i] = NL}

\* The complete lines of a text: the k-th is what stands before the k-th newline ...
LinesOf(text) ==
    LET end == [k \in 0 .. Cardinality(Ends(text)) |->
                  IF k = 0 THEN 0
                  ELSE CHOOSE i \in Ends(text) : Cardinality({e \in Ends(text) : e <= i}) = k]
    IN  [k \in 1 .. Cardinality(Ends(text)) |-> SubSeq(text, end[k - 1] + 1, end[k] - 1)]

\* ... and the beginning of a line that is left over.
RestOf(text) == SubSeq(text, Max({0} \cup Ends(text)) + 1, Len(text))

Blank(line) == split[line] = <<>>

\* Write, under w.mu: the text joins w.buf, which is split into lines.
Split(w) ==
    /\ todo[w] # <<>> /\ offering[w] = <<>>
    /\ LET text == buf \o Head(todo[w])
       IN  /\ buf' = RestOf(text)
           /\ split' = split \o LinesOf(text)
           /\ offering' = [offering EXCEPT ![w] = [k \in DOMAIN LinesOf(text) |-> Len(split) + k]]
    /\ todo' = [todo EXCEPT ![w] = Tail(@)]
    /\ UNCHANGED <<queued, ch, dropped, closeVars, worker, batch, postVars, validURL>>

\* Mutant: a send that waits for room in the channel.
OfferBlocking(w) ==
    /\ offering[w] # <<>>
    /\ Len(ch) < BufferSize
    /\ ch' = Append(ch, Head(offering[w]))
    /\ queued' = Append(queued, Head(offering[w]))
    /\ offering' = [offering EXCEPT ![w] = Tail(@)]
    /\ UNCHANGED <<todo, buf, split, dropped, closeVars, worker, batch, postVars, validURL>>

\* Write, for one line: blank lines are skipped, the others are sent if there is room.
Offer(w) ==
    /\ offering[w] # <<>>
    /\ LET line == Head(offering[w])
       IN  \/ /\ Blank(line)
              /\ UNCHANGED <<ch, queued, dropped>>
           \/ /\ ~Blank(line)
              /\ Len(ch) < BufferSize
              /\ ch' = Append(ch, line)
              /\ queued' = Append(queued, line)
              /\ UNCHANGED dropped
           \/ /\ ~Blank(line)
              /\ Len(ch) >= BufferSize
              /\ dropped' = dropped + 1
              /\ UNCHANGED <<ch, queued>>
    /\ offering' = [offering EXCEPT ![w] = Tail(@)]
    /\ UNCHANGED <<todo, buf, split, closeVars, worker, batch, postVars, validURL>>

-----------------------------------------------------------------------------
(* The worker *)

\* A line is taken off the channel; a full batch is posted.
Receive ==
    /\ worker \in {"select", "drain"}
    /\ attempt = Idle
    /\ ch # <<>>
    /\ ch' = Tail(ch)
    /\ batch' = Append(batch, Head(ch))
    /\ attempt' = IF Len(batch') >= BatchSize THEN 0 ELSE Idle
    /\ UNCHANGED <<writeVars, dropped, closeVars, worker, received, givenUp, unanswered,
                   validURL>>

\* The ticker: flush posts a batch that is not empty.
Tick ==
    /\ worker = "select"
    /\ attempt = Idle
    /\ batch # <<>>
    /\ attempt' = 0
    /\ UNCHANGED <<writeVars, ch, dropped, closeVars, worker, batch, received, givenUp,
                   unanswered, validURL>>

SeeDone ==
    /\ worker = "select"
    /\ attempt = Idle
    /\ done
    /\ worker' = "drain"
    /\ UNCHANGED <<writeVars, ch, dropped, closeVars, batch, postVars, validURL>>

\* Mutant: the lines in the channel are left there.
LeaveAtOnce ==
    /\ worker = "drain"
    /\ attempt = Idle
    /\ worker' = IF batch = <<>> THEN "exited" ELSE "final"
    /\ attempt' = IF batch = <<>> THEN Idle ELSE 0
    /\ UNCHANGED <<writeVars, ch, dropped, closeVars, batch, received, givenUp, unanswered,
                   validURL>>

\* The channel is empty: the last flush, then the worker returns.
Leave ==
    /\ worker = "drain"
    /\ attempt = Idle
    /\ ch = <<>>
    /\ worker' = IF batch = <<>> THEN "exited" ELSE "final"
    /\ attempt' = IF batch = <<>> THEN Idle ELSE 0
    /\ UNCHANGED <<writeVars, ch, dropped, closeVars, batch, received, givenUp, unanswered,
                   validURL>>

\* post returns: flush empties the batch, and after the last flush the worker is gone.
Posted ==
    /\ batch' = <<>>
    /\ attempt' = Idle
    /\ worker' = IF worker = "final" THEN "exited" ELSE worker

\* Mutant: a batch that is given up is not counted.
PostUncounted ==
    /\ attempt # Idle /\ validURL
    /\ IF attempt + 1 < Attempts
       THEN attempt' = attempt + 1 /\ UNCHANGED <<batch, worker, givenUp>>
       ELSE Posted /\ givenUp' = givenUp \cup Range(batch)
    /\ UNCHANGED <<received, unanswered, dropped, writeVars, ch, closeVars, validURL>>

\* Mutant: the first line of a failed batch goes back to the channel.
PostLater ==
    /\ attempt # Idle /\ validURL /\ Len(ch) < BufferSize
    /\ ch' = Append(ch, Head(batch))
    /\ batch' = Tail(batch)
    /\ attempt' = IF Tail(batch) = <<>> THEN Idle ELSE attempt
    /\ worker' = IF Tail(batch) = <<>> /\ worker = "final" THEN "exited" ELSE worker
    /\ UNCHANGED <<received, givenUp, unanswered, dropped, writeVars, closeVars, validURL>>

\* omnilog takes the lines of the batch, all of them unless an earlier attempt brought them.
Arrive == received' = IF Range(batch) \subseteq Range(received) THEN received ELSE received \o batch

\* One attempt that ends with a 2xx status.
PostOK ==
    /\ attempt # Idle /\ validURL
    /\ Arrive
    /\ Posted
    /\ UNCHANGED <<givenUp, unanswered, dropped, writeVars, ch, closeVars, validURL>>

\* One attempt that ends with an error or another status, and the pause after it; omnilog
\* may have taken the lines all the same.  The third failure counts the batch as dropped.
PostFailed ==
    /\ attempt # Idle /\ validURL
    /\ \/ UNCHANGED <<received, unanswered>>
       \/ /\ Arrive
          /\ unanswered' = unanswered \cup Range(batch)
    /\ IF attempt + 1 < Attempts
       THEN /\ attempt' = attempt + 1
            /\ UNCHANGED <<batch, worker, givenUp, dropped>>
       ELSE /\ Posted
            /\ givenUp' = givenUp \cup Range(batch)
            /\ dropped' = dropped + Len(batch)
    /\ UNCHANGED <<writeVars, ch, closeVars, validURL>>

\* A URL no request can be made for: post returns, and nothing is counted.
PostBadURL ==
    /\ attempt # Idle /\ ~validURL
    /\ Posted
    /\ givenUp' = givenUp \cup Range(batch)
    /\ UNCHANGED <<received, unanswered, dropped, writeVars, ch, closeVars, validURL>>

run == Receive \/ Tick \/ SeeDone \/ Leave \/ PostOK \/ PostFailed \/ PostBadURL

-----------------------------------------------------------------------------
(* Close *)

Close ==
    /\ close = "no"
    /\ done' = TRUE
    /\ close' = "waiting"
    /\ before' = Range(ch) \cup Range(batch)
    /\ UNCHANGED <<writeVars, ch, dropped, worker, batch, postVars, validURL>>

CloseReturns ==
    /\ close = "waiting"
    /\ \/ worker = "exited" /\ close' = "nil"
       \/ close' = "ctx"
    /\ UNCHANGED <<writeVars, ch, dropped, done, before, worker, batch, postVars, validURL>>

-----------------------------------------------------------------------------

Write(w) == Split(w) \/ Offer(w)

Next ==
    \/ \E w \in Writer : Write(w)
    \/ run
    \/ Close
    \/ CloseReturns

\* The goroutines run; post ends, as the client has a timeout and there are three attempts.
Fairness == WF_vars(run) /\ \A w \in Writer : WF_vars(Offer(w))

Spec == Init /\ [][Next]_vars /\ Fairness

-----------------------------------------------------------------------------
(* Properties *)

TypeOK ==
    /\ dropped \in Nat
    /\ done \in BOOLEAN /\ validURL \in BOOLEAN
    /\ worker \in {"select", "drain", "final", "exited"}
    /\ attempt \in {Idle} \cup 0 .. Attempts - 1
    /\ close \in {"no", "waiting", "nil", "ctx"}
    /\ Len(ch) <= BufferSize
    /\ Len(batch) <= BatchSize
    /\ attempt # Idle => batch # <<>> /\ worker # "exited"

\* Nothing disappears in silence: the lines that have neither arrived nor are still on
\* their way are counted in Dropped, and nothing else is counted but lines whose answer
\* was lost.  (A URL that http.NewRequest refuses is the exception the code makes; and a
\* line that is written after the worker has left stays in the channel, which counts
\* as on its way here.)
Offered == UNION {Range(offering[w]) : w \in Writer}
OnTheWay == Offered \cup Range(ch) \cup Range(batch)
Lost == {l \in DOMAIN split : ~Blank(l)} \ (Range(received) \cup OnTheWay)
Accounted ==
    validURL => /\ Cardinality(Lost) <= dropped
                /\ dropped <= Cardinality(Lost \cup unanswered)

\* The lines arrive in the order of the channel, retries included: when a line arrives, each
\* line that was queued before it has arrived already or was given up.
ChannelOrder ==
    \A i, j \in DOMAIN queued : \A n \in DOMAIN received :
        i < j /\ received[n] = queued[j] =>
            \/ queued[i] \in givenUp
            \/ \E m \in 1 .. n - 1 : received[m] = queued[i]

\* "Close flushes pending lines": when it returns without error, every line that was in the
\* channel or in the batch has reached omnilog or was tried three times.
FlushedOnClose == close = "nil" => before \subseteq Range(received) \cup givenUp

\* "Non-blocking": a Write returns whatever omnilog and the worker do, after Close too;
\* and Close ends the worker.
WriteReturns == \A w \in Writer : offering[w] # <<>> ~> offering[w] = <<>>
WorkerLeaves == done ~> worker = "exited"
NeverStuck == WriteReturns /\ WorkerLeaves
=============================================================================
