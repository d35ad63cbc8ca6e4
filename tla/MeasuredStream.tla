--------------------------- MODULE MeasuredStream ---------------------------
(***************************************************************************)
(* What a streaming request says and how its time is measured, from the    *)
(* words of the mock engine to the load test's report:                     *)
(* MockEngine.generate with stop sequences, service.generate_stream with   *)
(* its LatencyRecorder, the frames on the wire, loadtest's _one_request    *)
(* and the percentiles of _summarise.  Suspensions, leases and keep-alives *)
(* (comments, which the client skips) are in RequestPath.                  *)
(*                                                                         *)
(* Texts are sequences of characters.  Both ends read one clock; only      *)
(* differences of readings of the same end are ever reported.              *)
(***************************************************************************)
EXTENDS Integers, Sequences, SequencesExt, FiniteSetsExt

CONSTANTS Characters, \* what texts are made of
          Vocab,      \* _VOCAB: texts
          Space,      \* what joins them: a text
          Stops,      \* stop sequences a client may ask for: texts, none empty
          MaxTokens,  \* sampling.max_tokens
          Timeout,    \* request_timeout_s
          LastTick    \* the clock stops there

Texts == Seq(Characters)

\* apply_stop_sequences skips empty stop sequences.
ASSUME TextsAssumption ==
    /\ Vocab \subseteq Texts /\ Space \in Texts
    /\ Stops \subseteq Texts \ {<<>>}

VARIABLES
    now,
    stop, gen, text, emitted,   \* generate(): its stop sequences, where it is, text_so_far
    made,                       \* everything it has drawn, the last word included
    sent,                       \* the deltas generate_stream has forwarded, joined
    rec,                        \* its LatencyRecorder
    wire,                       \* frames the client has not read
    client                      \* _one_request: its local variables

engineVars == <<stop, gen, text, emitted, made>>
measuredVars == <<now, engineVars, sent, rec, wire, client>>

Never == -1    \* None, for a time
MeasuredInit ==
    /\ now = 0
    /\ stop \in SUBSET Stops
    /\ gen = "none" /\ text = <<>> /\ emitted = 0 /\ made = <<>> /\ sent = <<>>
    /\ rec = [arrived |-> Never, first |-> Never, last |-> Never, finished |-> Never,
              gaps |-> <<>>, tokens |-> 0, outcome |-> "pending"]
    /\ wire = <<>>
    /\ client = [ttft |-> Never, last |-> Never, itls |-> <<>>, tokens |-> 0,
                 got |-> <<>>, e2e |-> Never, outcome |-> "waiting"]

Tick ==
    /\ now < LastTick /\ now' = now + 1
    /\ UNCHANGED <<engineVars, sent, rec, wire, client>>

-----------------------------------------------------------------------------
(* apply_stop_sequences *)

\* Where stop sequence t begins in s, counting from 0 as text.find does.
Found(s, t) == {i \in 0 .. Len(s) - Len(t) : SubSeq(s, i + 1, i + Len(t)) = t}

Begins(s, stops) == UNION {Found(s, t) : t \in stops}

\* Mutant: the last place instead of the first.
MutCut(s, stops) == IF Begins(s, stops) = {} THEN s ELSE SubSeq(s, 1, Max(Begins(s, stops)))

\* The text up to the earliest stop sequence.
Cut(s, stops) == IF Begins(s, stops) = {} THEN s ELSE SubSeq(s, 1, Min(Begins(s, stops)))

-----------------------------------------------------------------------------
(* LatencyRecorder *)

\* Mutant: the gap is taken from the first token.
MutOnToken(r) ==
    [r EXCEPT !.gaps = IF r.first = Never THEN @ ELSE Append(@, now - r.first),
              !.first = IF @ = Never THEN now ELSE @,
              !.last = now,
              !.tokens = @ + 1]

OnToken(r) ==
    [r EXCEPT !.gaps = IF r.first = Never THEN @ ELSE Append(@, now - r.last),
              !.first = IF @ = Never THEN now ELSE @,
              !.last = now,
              !.tokens = @ + 1]

Finish(outcome) == rec' = [rec EXCEPT !.outcome = outcome, !.finished = now]

\* ttft_s and decode_s of a stream with tokens, duration_s of a finished one.
TTFT == rec.first - rec.arrived
Decode == rec.last - rec.first
Duration == rec.finished - rec.arrived

-----------------------------------------------------------------------------
(* The server *)

Frame(delta) == [data |-> "delta", text |-> delta]
FinalFrames == <<[data |-> "final", text |-> <<>>], [data |-> "[DONE]", text |-> <<>>]>>
ErrorFrame == [data |-> "error", text |-> <<>>]

\* The route creates the recorder; it may then wait for its lease.
Arrive ==
    /\ rec.arrived = Never /\ rec' = [rec EXCEPT !.arrived = now]
    /\ UNCHANGED <<now, engineVars, sent, wire, client>>

Admitted ==
    /\ gen = "none" /\ rec.arrived # Never /\ client.outcome = "waiting"
    /\ gen' = "decoding"
    /\ UNCHANGED <<now, stop, text, emitted, made, sent, rec, wire, client>>

\* A chunk with text reaches generate_stream, which accounts for it and sends it.
Deliver(delta) ==
    /\ emitted' = emitted + 1
    /\ sent' = sent \o delta
    /\ rec' = OnToken(rec)
    /\ wire' = Append(wire, Frame(delta))

\* The final chunk, or a break: the recorder is closed before the last frames.
EndStream(reason) ==
    /\ gen' = "ended"
    /\ Finish(reason)
    /\ wire' = wire \o FinalFrames

\* The next word.  If it completes a stop sequence, what the cut adds to the
\* text so far still goes out, unless it adds nothing.
NextWord(w) ==
    LET candidate == text \o (IF emitted = 0 THEN w ELSE Space \o w)
        trimmed == Cut(candidate, stop)
        delta == SubSeq(trimmed, Len(text) + 1, Len(trimmed))
    IN  /\ gen = "decoding" /\ client.outcome = "waiting"
        /\ made' = candidate
        /\ \/ /\ trimmed = candidate
              /\ gen' = "yielded" /\ text' = candidate
              /\ Deliver(SubSeq(candidate, Len(text) + 1, Len(candidate)))
           \/ /\ trimmed # candidate /\ delta # <<>>
              /\ gen' = "stopping" /\ Deliver(delta) /\ UNCHANGED text
           \/ /\ trimmed # candidate /\ delta = <<>>
              /\ EndStream("stop") /\ UNCHANGED <<text, emitted, sent>>
        /\ UNCHANGED <<now, stop, client>>

Late == now > rec.arrived + Timeout

\* generate_stream resumes after a delta: deadline first, then the next chunk.
AfterDelta ==
    /\ gen \in {"yielded", "stopping"} /\ client.outcome = "waiting"
    /\ \/ Late /\ EndStream("timeout")
       \/ ~Late /\ gen = "stopping" /\ EndStream("stop")
       \/ ~Late /\ gen = "yielded" /\ emitted = MaxTokens /\ EndStream("length")
       \/ /\ ~Late /\ gen = "yielded" /\ emitted < MaxTokens
          /\ gen' = "decoding" /\ UNCHANGED <<rec, wire>>
    /\ UNCHANGED <<now, stop, text, emitted, made, sent, client>>

EngineRaises ==
    /\ gen = "decoding" /\ client.outcome = "waiting"
    /\ gen' = "ended" /\ Finish("error") /\ wire' = Append(wire, ErrorFrame)
    /\ UNCHANGED <<now, stop, text, emitted, made, sent, client>>

\* The client has gone; the server notices now.
HangUp ==
    /\ client.outcome = "http_error" /\ gen \in {"decoding", "yielded", "stopping"}
    /\ gen' = "ended" /\ Finish("client_disconnect")
    /\ UNCHANGED <<now, stop, text, emitted, made, sent, wire, client>>

-----------------------------------------------------------------------------
(* _one_request; it started at 0 *)

Leaves(outcome) == client' = [client EXCEPT !.outcome = outcome, !.e2e = now]

GotDelta(t) ==
    client' = [client EXCEPT !.ttft = IF @ = Never THEN now ELSE @,
                             !.itls = IF client.ttft = Never THEN @
                                      ELSE Append(@, now - client.last),
                             !.last = now, !.tokens = @ + 1, !.got = @ \o t]

ReadFrame ==
    /\ client.outcome = "waiting" /\ wire # <<>> /\ wire' = Tail(wire)
    /\ LET f == Head(wire)
       IN  \/ f.data = "delta" /\ GotDelta(f.text)
           \/ f.data = "final" /\ UNCHANGED client
           \/ f.data = "error" /\ Leaves("stream_error")
           \/ f.data = "[DONE]" /\ Leaves("ok")
    /\ UNCHANGED <<now, engineVars, sent, rec>>

\* httpx gives up: an outcome of its own, without the figures so far.
ClientTimeout ==
    /\ client.outcome = "waiting"
    /\ client' = [client EXCEPT !.outcome = "http_error", !.e2e = now, !.ttft = Never,
                                !.itls = <<>>, !.tokens = 0]
    /\ UNCHANGED <<now, engineVars, sent, rec, wire>>

MeasuredNext ==
    \/ Tick \/ Arrive \/ Admitted
    \/ \E w \in Vocab : NextWord(w)
    \/ AfterDelta \/ EngineRaises \/ HangUp
    \/ ReadFrame \/ ClientTimeout

MeasuredSpec == MeasuredInit /\ [][MeasuredNext]_measuredVars

-----------------------------------------------------------------------------
(* _summarise, in hundredths of a tick *)

\* p takes the places of a list to places of values, leaves none out, and the
\* values come in ascending order.
Sorts(p, values) ==
    LET places == 1 .. Len(values)
    IN  /\ \A i \in places : \E j \in places : p[j] = i
        /\ \A i, j \in places : i < j => values[p[i]] <= values[p[j]]

\* sorted(values)
Ordered(values) ==
    LET places == 1 .. Len(values)
        p == CHOOSE p \in [places -> places] : Sorts(p, values)
    IN  [i \in places |-> values[p[i]]]

\* Mutant: the values are taken as they came.
MutPercentile(values, q) ==
    LET pos == (Len(values) - 1) * q
        low == pos \div 100
        high == Min({low + 1, Len(values) - 1})
        frac == pos % 100
    IN  values[low + 1] * (100 - frac) + values[high + 1] * frac

\* percentile(values, q), interpolated between two neighbours.
Percentile(values, q) ==
    LET ordered == Ordered(values)
        pos == (Len(ordered) - 1) * q
        low == pos \div 100
        high == Min({low + 1, Len(ordered) - 1})
        frac == pos % 100
    IN  ordered[low + 1] * (100 - frac) + ordered[high + 1] * frac

\* demo.measure_inprocess has a definition of its own.
DemoPercentile(values, q) ==
    LET ordered == Ordered(values)
        pos == (Len(ordered) - 1) * q
        low == pos \div 100
        high == Min({low + 1, Len(ordered) - 1})
    IN  IF Len(values) = 1 THEN values[1] * 100
        ELSE ordered[low + 1] * 100
               + (ordered[high + 1] - ordered[low + 1]) * (pos - low * 100)

Summarise(values) == [q \in {50, 90, 95, 99} |-> Percentile(values, q)]

-----------------------------------------------------------------------------
(* Properties *)

\* No delta completes a stop sequence, alone or with the deltas before it.
\* What goes out is what was drawn up to the earliest stop sequence, or up to
\* the previous word where the sequence began in text already sent; "stop" is
\* reported exactly for those, and a client that saw [DONE] has all of it.
StopsHonoured ==
    /\ Begins(sent, stop) = {}
    /\ IsPrefix(sent, made) /\ IsPrefix(Cut(made, stop), sent)
    /\ rec.outcome = "stop" => sent # made
    /\ rec.outcome = "length" => sent = made
    /\ client.outcome = "ok" => client.got = sent

\* The sum of the first i gaps, for each i.
RunningSums(gaps) ==
    LET sum[i \in 0 .. Len(gaps)] == IF i = 0 THEN 0 ELSE sum[i - 1] + gaps[i]
    IN  sum

Total(gaps) == RunningSums(gaps)[Len(gaps)]

\* At each end the first token's delay and the gaps make up the time of the
\* last token.
GapsTelescope ==
    /\ rec.tokens > 0 => Total(rec.gaps) = Decode
    /\ client.tokens > 0 => client.ttft + Total(client.itls) = client.last

\* At each end there is one gap less than tokens; and the client's figures for
\* a completed stream enclose the server's.
EndsAgree ==
    /\ rec.tokens > 0 => Len(rec.gaps) = rec.tokens - 1
    /\ client.tokens > 0 => Len(client.itls) = client.tokens - 1
    /\ client.outcome = "ok" =>
         /\ client.tokens = rec.tokens
         /\ client.e2e >= Duration
         /\ rec.tokens > 0 => client.ttft >= TTFT /\ Duration >= TTFT + Decode

\* The figures of LatencyRecorder and _one_request fit each other and the stream.
FiguresAddUp == GapsTelescope /\ EndsAgree

\* Each reported percentile lies where its definition puts it: no more than
\* its share of the gaps is below it, no more than the rest above, counting the
\* gap it interpolates to; the reported ones are in order.  The demo's figures
\* are the same ("matches the harness's definition", measure_inprocess.py:55).
PercentilesHold ==
    LET gaps == client.itls
        n == Len(gaps)
        Share(q, S) == Cardinality(S) * 100 < (n - 1) * q + 100
    IN  n > 0 =>
         LET summary == Summarise(gaps)
         IN  /\ \A q \in DOMAIN summary :
                  /\ Share(q, {i \in 1 .. n : gaps[i] * 100 < summary[q]})
                  /\ Share(100 - q, {i \in 1 .. n : gaps[i] * 100 > summary[q]})
             /\ \A p, q \in DOMAIN summary : p < q => summary[p] <= summary[q]
             /\ \A q \in DOMAIN summary : DemoPercentile(gaps, q) = summary[q]

=============================================================================
