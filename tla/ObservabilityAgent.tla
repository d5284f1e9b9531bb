------------------------- MODULE ObservabilityAgent -------------------------
(***************************************************************************)
(* The observability agent (cmd/data-observability-agent/main.go): from a  *)
(* query and what Prometheus or Loki answers to signals.                   *)
(*                                                                         *)
(* Numbers are integers, except for NaN, which PromQL computes easily      *)
(* (0/0); Bad is a sample that is not a number.  An average stands for the *)
(* slope too, which is NaN whenever the average is.  The agent has no      *)
(* state.                                                                  *)
(***************************************************************************)
EXTENDS Integers, Sequences, FiniteSets, Functions

CONSTANTS NaN, Bad

ASSUME NumberAssumption == NaN \notin Int /\ Bad \notin Int \cup {NaN}

Number == Int \cup {NaN}

NoSignals == <<>>   \* the map without entries

(* float64 arithmetic as far as NaN is concerned. *)
Plus(a, b) == IF a = NaN \/ b = NaN THEN NaN ELSE a + b
Less(a, b) == a # NaN /\ b # NaN /\ a < b

(* The sum of f over a finite set of indices. *)
Total(f, S) == FoldFunctionOnSet(Plus, 0, f, S)

-----------------------------------------------------------------------------
(* What a backend answers: not at all, nothing that decodes, an error      *)
(* status, or a list of series under a resultType.  A series of a vector   *)
(* is its sample, of a matrix a set of points, of streams its line count;  *)
(* a series that does not have the shape read is Bad.                      *)
Answer(kind, type, result) == [ kind |-> kind, type |-> type, result |-> result ]

(* A matrix as Prometheus and Loki send it: a series has one point at a    *)
(* time.                                                                   *)
Series == { ps \in SUBSET [ t : Int, v : {Bad} \cup Number ] :
              \A p, q \in ps : p.t = q.t => p = q }
Matrix == Seq({Bad} \cup Series)

Readable(res) == { k \in DOMAIN res : res[k] # Bad }

(* parsePrometheusSignalsInstant, and parseLokiSignals of a vector. *)
parseVector(res) ==
    IF Readable(res) = {} THEN NoSignals
    ELSE LET sum == Total(res, Readable(res)) IN
         [ value |-> sum, sum |-> sum, series |-> Cardinality(Readable(res)) ]

(* extractMatrixAsSummedSeries: the samples of all series added up by      *)
(* timestamp; points that are not numbers are skipped.                     *)
NumericPoints(series) == { p \in series : p.v # Bad }
Points(res) == UNION { {k} \X NumericPoints(res[k]) : k \in Readable(res) }

byTS(res) ==
    [ t \in { q[2].t : q \in Points(res) } |->
          Total([ q \in Points(res) |-> q[2].v ], { q \in Points(res) : q[2].t = t }) ]

(* seriesStats over the summed series.  min and max start at the first     *)
(* sample and keep it when nothing compares with it.                       *)
Earliest(ys) == CHOOSE t \in DOMAIN ys : \A u \in DOMAIN ys : t <= u

(* Faulty: the sums are not sorted, the first one is taken for the last. *)
LatestUnsorted(ys) == Earliest(ys)

Latest(ys) == CHOOSE t \in DOMAIN ys : \A u \in DOMAIN ys : u <= t

Average(ys) ==
    LET sum == Total(ys, DOMAIN ys) IN
    IF sum = NaN THEN NaN ELSE sum \div Cardinality(DOMAIN ys)

Extreme(ys, Better(_, _)) ==
    LET numbers == { ys[t] : t \in DOMAIN ys } \ {NaN} IN
    IF ys[Earliest(ys)] = NaN THEN NaN
    ELSE CHOOSE m \in numbers : \A n \in numbers : ~Better(n, m)

parseMatrix(res) ==
    LET ys == byTS(res) IN
    IF DOMAIN ys = {} THEN NoSignals
    ELSE [ value |-> ys[Latest(ys)], last |-> ys[Latest(ys)],
           min |-> Extreme(ys, Less), max |-> Extreme(ys, LAMBDA a, b : Less(b, a)),
           avg |-> Average(ys), samples |-> Cardinality(DOMAIN ys), series |-> Cardinality(Readable(res)) ]

(* Streams count lines, also those of no stream. *)
parseStreams(res) ==
    LET lines == Total(res, Readable(res)) IN
    [ value |-> lines, lines |-> lines, streams |-> Len(res) ]

(* Prometheus is parsed by the kind of query, whatever its resultType, ... *)
prometheusSignals(range, answer) ==
    IF range
    THEN IF answer.type = "matrix" THEN parseMatrix(answer.result) ELSE NoSignals
    ELSE IF answer.type = "vector" THEN parseVector(answer.result) ELSE NoSignals

(* ... Loki by the resultType, whatever the query. *)
parseLokiSignals(range, answer) ==
    CASE answer.type = "streams" -> parseStreams(answer.result)
      [] answer.type = "vector"  -> parseVector(answer.result)
      [] answer.type = "matrix"  -> parseMatrix(answer.result)
      [] OTHER                   -> NoSignals

-----------------------------------------------------------------------------
(* The window of a query.  A field is {} if absent, {Bad} if it does not   *)
(* parse.  An explicit window needs its step to be one, although a missing *)
(* step has a default.                                                     *)
NoParams == [ mode |-> "", start |-> {}, end |-> {}, step |-> {}, range |-> {}, range_seconds |-> {} ]

shouldRangeQuery(params) ==
    \/ params.mode = "range"
    \/ params.range # {} \/ params.range_seconds # {}
    \/ params.start # {} /\ params.end # {} /\ params.step # {}

Positive(field) == \A x \in field : x # Bad /\ x > 0

(* resolveRangeParams finds a window. *)
resolveRangeParams(params) ==
    IF params.start # {} /\ params.end # {}
    THEN \A s \in params.start, e \in params.end : s # Bad /\ e # Bad /\ s < e
    ELSE IF params.range_seconds # {} THEN Positive(params.range_seconds)
    ELSE params.range # {} /\ Positive(params.range)

-----------------------------------------------------------------------------
(* execute.  query.text is "" when nothing but blanks is left of it.       *)
Output(degraded, signals) == [ Degraded |-> degraded, Signals |-> signals ]
Degraded == Output(TRUE, NoSignals)

Engine(query) ==
    CASE query.type \in {"", "promql", "prometheus"} -> "prometheus"
      [] query.type \in {"logs", "loki"}             -> "loki"
      [] OTHER                                       -> "unsupported"

queryBackend(query, answer) ==
    LET range == shouldRangeQuery(query.params) IN
    IF (range /\ ~resolveRangeParams(query.params)) \/ answer.kind # "ok"
    THEN Degraded
    ELSE Output(FALSE, IF Engine(query) = "loki" THEN parseLokiSignals(range, answer)
                       ELSE prometheusSignals(range, answer))

execute(configured, query, answer) ==
    IF query.text = "" \/ Engine(query) \notin configured THEN Degraded
    ELSE queryBackend(query, answer)

(* JSON has no NaN: handleTask then sends a response without an output,    *)
(* which its caller cannot decode.                                         *)
Encodable(out) == \A s \in DOMAIN out.Signals : out.Signals[s] # NaN

=============================================================================
