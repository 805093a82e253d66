--------------------------- MODULE SamplersProofs ---------------------------
(***************************************************************************)
(* The properties of Samplers for every partition, whatever its degrees,   *)
(* and every length of buffers and hints.                                  *)
(*                                                                         *)
(* The inductive invariant follows the loops of the init functions: the    *)
(* buffers placed so far end where the units end, and each begins where    *)
(* the one before it ended; the hints so far cover the vertices so far     *)
(* with runs of equal degrees.  That there are no more hints than members  *)
(* of the array follows from the order of the degrees: each hint's degree  *)
(* is smaller than the one before, and Similar bounds the difference.      *)
(***************************************************************************)
EXTENDS Samplers, SequenceTheorems, TLAPS

Length(v) == BufferLength(Degree(v))
PlacedEnd == IF next = VertexBegin THEN 0 ELSE stop[next - 1]

BuffersInv ==
    class = "ExclusiveBuffer" =>
        /\ phase = "ready" => next = VertexEnd
        /\ Len(units) = PlacedEnd
        /\ \A v \in PartitionVertices : v < next =>
              /\ Length(v) <= stop[v] /\ stop[v] <= Len(units)
              /\ stop[v] - Length(v) <= head[v] /\ head[v] <= stop[v]
              /\ \A i \in head[v] .. stop[v] - 1 : i \in fresh /\ units[i + 1] = v
        /\ \A u, v \in PartitionVertices : u < v /\ v < next => stop[u] <= stop[v] - Length(v)

\* Where the run of hint h ends, as far as init has come.
RunEnd(h) == IF h < Len(hints) THEN hints[h + 1].vertexBegin ELSE next

HintsInv ==
    class = "SimilarDegreeDirect" =>
        /\ Similar(adjlists)
        /\ phase = "ready" => next = VertexEnd
        /\ hints = << >> <=> next = VertexBegin
        /\ hints # << >> => Len(hints) <= Degree(VertexBegin) - hints[Len(hints)].degree + 1
        /\ hints # << >> => hints[1].vertexBegin = VertexBegin
        /\ \A h \in 1 .. Len(hints) :
              /\ hints[h].vertexBegin \in PartitionVertices /\ hints[h].vertexBegin < next
              /\ hints[h].degree = Degree(hints[h].vertexBegin)
              /\ hints[h].edgeBegin = Begin(hints[h].vertexBegin)
              /\ \A v \in PartitionVertices :
                    hints[h].vertexBegin <= v /\ v < RunEnd(h) => Degree(v) = hints[h].degree
              /\ h < Len(hints) \/ phase = "ready" => hints[h].vertexEnd = RunEnd(h)

HintType == [degree : Nat, vertexBegin : Nat, vertexEnd : Nat, edgeBegin : Nat]

BasicTypes ==
    /\ phase \in {"build", "ready"}
    /\ next \in VertexBegin .. VertexEnd
    /\ class \in Classes
    /\ adjlists \in Layouts
    /\ stop \in [PartitionVertices -> Nat] /\ head \in [PartitionVertices -> Nat]
    /\ units \in Seq(Int)
    /\ fresh \subseteq Nat
    /\ hints \in Seq(HintType)
    /\ class # "SimilarDegreeDirect" => hints = << >>

OutInv ==
    /\ out \in [asked : Int, answer : Int, isFresh : BOOLEAN]
    /\ SampledOwnEdge
    /\ EveryDrawFresh

SamplersIInv ==
    /\ BasicTypes
    /\ BuffersInv
    /\ HintsInv
    /\ class = "UniformDegreeDirect" => Uniform(adjlists)
    /\ OutInv

-----------------------------------------------------------------------------
\* Degrees and lists are numbers, and a vertex has an edge.
LEMMA LayoutTypes ==
    ASSUME adjlists \in Layouts, NEW v \in PartitionVertices
    PROVE  /\ v \in Nat /\ VertexBegin <= v /\ v < VertexEnd
           /\ Degree(v) \in Nat \ {0} /\ Begin(v) \in Nat
BY SamplersAssumption DEF PartitionVertices, Degree, Begin

\* In a uniform partition the vertices have one degree.
LEMMA SameDegree ==
    ASSUME adjlists \in Layouts, Uniform(adjlists),
           NEW u \in PartitionVertices, NEW v \in PartitionVertices
    PROVE  Degree(u) = Degree(v)
<1>1. Degree(u) \in Nat /\ Degree(v) \in Nat BY LayoutTypes
<1>2. Degree(u) = Least(VNum, Degree(v)) /\ Degree(v) = Least(VNum, Degree(v))
  <2>1. /\ Degree(u) - Least(VNum, Degree(v)) = 0
        /\ Degree(v) - Least(VNum, Degree(v)) = 0
    BY DEF Uniform, Ahead, Degree
  <2>q. QED BY <1>1, <2>1, SamplersAssumption DEF Least
<1>q. QED BY <1>2

\* The degrees of a partition do not rise.
LEMMA LayoutSorted ==
    ASSUME adjlists \in Layouts, NEW u \in PartitionVertices, NEW v \in PartitionVertices, u <= v
    PROVE  Degree(v) <= Degree(u)
<1>1. u \in Int /\ v \in Int /\ Degree(u) \in Int BY LayoutTypes
<1>2. CASE u = v BY <1>1, <1>2
<1>3. CASE u < v BY <1>3, SamplersAssumption DEF Degree
<1>q. QED BY <1>1, <1>2, <1>3

\* The lists of a run of equal degrees are evenly spaced.
LEMMA LayoutEven ==
    ASSUME adjlists \in Layouts, NEW u \in PartitionVertices, NEW v \in PartitionVertices, u <= v,
           Degree(u) = Degree(v)
    PROVE  Begin(v) = Begin(u) + (v - u) * Degree(u)
<1>1. u \in Int /\ v \in Int /\ Degree(u) \in Int /\ Begin(u) \in Int BY LayoutTypes
<1>2. CASE u = v
  <2>1. (v - u) * Degree(u) = 0 BY <1>1, <1>2
  <2>q. QED BY <1>1, <1>2, <2>1
<1>3. CASE u < v BY <1>3, SamplersAssumption DEF Degree, Begin
<1>q. QED BY <1>1, <1>2, <1>3

\* Lists do not overlap: an edge of v's list is in no other list.
LEMMA EdgeInOneList ==
    ASSUME adjlists \in Layouts, NEW v \in PartitionVertices, NEW edge \in Edges(v)
    PROVE  ListOf(edge) = v
<1>1. ASSUME NEW u \in PartitionVertices, edge \in Edges(u) PROVE u = v
  <2>1. \A w \in PartitionVertices :
           w \in Int /\ Begin(w) \in Int /\ Degree(w) \in Int
    BY LayoutTypes
  <2>2. ASSUME NEW a \in PartitionVertices, NEW b \in PartitionVertices, a < b
        PROVE  Begin(a) + Degree(a) <= Begin(b)
    BY <2>2, SamplersAssumption DEF Begin, Degree
  <2>3. Begin(u) <= edge /\ edge < Begin(u) + Degree(u) BY <1>1, <2>1 DEF Edges
  <2>4. Begin(v) <= edge /\ edge < Begin(v) + Degree(v) BY <2>1 DEF Edges
  <2>5. edge \in Int BY <2>1 DEF Edges
  <2>q. QED BY <2>1, <2>2, <2>3, <2>4, <2>5
<1>q. QED BY <1>1 DEF ListOf

\* A draw by address: with an address in v's list the answer is v.
LEMMA DirectAnswer ==
    ASSUME adjlists \in Layouts, NEW v \in PartitionVertices, NEW r \in 0 .. Degree(v) - 1,
           Answer(v, Begin(v) + r)
    PROVE  OutInv'
<1>1. Begin(v) + r \in Edges(v) BY LayoutTypes DEF Edges
<1>2. ListOf(Begin(v) + r) = v BY <1>1, EdgeInOneList
<1>3. v \in Int BY LayoutTypes
<1>q. QED BY <1>2, <1>3 DEF Answer, OutInv, SampledOwnEdge, EveryDrawFresh

\* Buffers have at least one entry.
LEMMA LengthType ==
    ASSUME adjlists \in Layouts, NEW v \in PartitionVertices
    PROVE  Length(v) \in Nat \ {0}
BY LayoutTypes, SamplersAssumption DEF Length, BufferLength, Largest

-----------------------------------------------------------------------------
\* The first buffer begins at 0, and there is no hint.
LEMMA SamplersInitInv == SamplersInit => SamplersIInv
<1> SUFFICES ASSUME SamplersInit PROVE SamplersIInv
  OBVIOUS
<1> USE DEF SamplersInit
<1>1. class \in Classes BY DEF ClassOf, Classes
<1>2. BasicTypes BY <1>1, SamplersAssumption DEF BasicTypes
<1>3. BuffersInv BY SamplersAssumption DEF BuffersInv, PlacedEnd, PartitionVertices
<1>4. HintsInv
  <2>1. class = "SimilarDegreeDirect" => Similar(adjlists) BY DEF ClassOf
  <2>q. QED BY <2>1, SamplersAssumption DEF HintsInv
<1>5. class = "UniformDegreeDirect" => Uniform(adjlists) BY DEF ClassOf
<1>6. OutInv BY DEF OutInv, SampledOwnEdge, EveryDrawFresh, NoVertex
<1>q. QED BY <1>2, <1>3, <1>4, <1>5, <1>6 DEF SamplersIInv

\* The next buffer begins where the units end; the units grow by its length.
LEMMA PlaceBufferInv == SamplersIInv /\ PlaceBuffer => SamplersIInv'
<1> SUFFICES ASSUME SamplersIInv, PlaceBuffer PROVE SamplersIInv'
  OBVIOUS
<1> DEFINE new == [i \in 1 .. Length(next) |-> 0]
<1>1. BasicTypes /\ BuffersInv BY DEF SamplersIInv
<1>2. next \in PartitionVertices /\ next \in Int /\ VertexBegin \in Int /\ VertexEnd \in Int
  BY <1>1, SamplersAssumption DEF BasicTypes, PlaceBuffer, PartitionVertices
<1>3. /\ Length(next) \in Nat \ {0}
      /\ \A v \in PartitionVertices : Length(v) \in Nat \ {0} /\ Length(v)' = Length(v) /\ v \in Int
  <2>1. adjlists \in Layouts BY <1>1 DEF BasicTypes
  <2>2. adjlists' = adjlists BY DEF PlaceBuffer
  <2>3. \A v \in PartitionVertices : Length(v)' = Length(v) BY <2>2 DEF Length, Degree
  <2>q. QED BY <1>2, <2>1, <2>3, LengthType, LayoutTypes
<1>4. /\ new \in Seq(Int) /\ Len(new) = Length(next) /\ units \in Seq(Int)
      /\ units' = units \o new
  BY <1>1, <1>3 DEF BasicTypes, PlaceBuffer, Length
<1>5. units' \in Seq(Int) /\ Len(units') = Len(units) + Length(next)
  BY <1>4, ConcatProperties
<1>6. PlacedEnd \in Nat
  <2>1. next # VertexBegin => next - 1 \in PartitionVertices
    BY <1>2 DEF PartitionVertices
  <2>q. QED BY <1>1, <2>1 DEF BasicTypes, PlacedEnd
<1>7. /\ stop' = [stop EXCEPT ![next] = PlacedEnd + Length(next)]
      /\ head' = [head EXCEPT ![next] = PlacedEnd + Length(next)]
  BY <1>1, <1>2 DEF PlaceBuffer, PlacedEnd, Length, BasicTypes
<1>8. /\ stop'[next] = PlacedEnd + Length(next) /\ head'[next] = PlacedEnd + Length(next)
      /\ \A v \in PartitionVertices : v # next => stop'[v] = stop[v] /\ head'[v] = head[v]
      /\ stop' \in [PartitionVertices -> Nat] /\ head' \in [PartitionVertices -> Nat]
  BY <1>1, <1>2, <1>3, <1>6, <1>7 DEF BasicTypes
<1>9. BasicTypes' BY <1>1, <1>2, <1>5, <1>8 DEF BasicTypes, PlaceBuffer, PartitionVertices
<1>10. BuffersInv'
  <2>1. class = "ExclusiveBuffer" /\ phase' = "build" /\ next' = next + 1
    BY DEF PlaceBuffer
  <2>2. Len(units) = PlacedEnd BY <1>1, <2>1 DEF BuffersInv
  <2>3. Len(units') = PlacedEnd'
    BY <1>2, <1>5, <1>8, <2>1, <2>2 DEF PlacedEnd, PartitionVertices
  <2>4. ASSUME NEW v \in PartitionVertices, v < next'
        PROVE  /\ Length(v)' <= stop'[v] /\ stop'[v] <= Len(units')
               /\ stop'[v] - Length(v)' <= head'[v] /\ head'[v] <= stop'[v]
               /\ \A i \in head'[v] .. stop'[v] - 1 : i \in fresh' /\ units'[i + 1] = v
    <3>1. CASE v = next
      BY <1>3, <1>5, <1>6, <1>8, <2>2, <3>1
    <3>2. CASE v # next
      <4>1. v < next BY <1>2, <1>3, <2>1, <2>4, <3>2
      <4>2. /\ Length(v) <= stop[v] /\ stop[v] <= Len(units)
            /\ stop[v] - Length(v) <= head[v] /\ head[v] <= stop[v]
            /\ \A i \in head[v] .. stop[v] - 1 : i \in fresh /\ units[i + 1] = v
        BY <1>1, <2>1, <4>1 DEF BuffersInv
      <4>3. head[v] \in Nat /\ stop[v] \in Nat /\ Len(units) \in Nat
        BY <1>1, <1>4 DEF BasicTypes
      <4>4. \A i \in 0 .. Len(units) - 1 : units'[i + 1] = units[i + 1]
        BY <1>4, ConcatProperties
      <4>5. fresh' = fresh BY DEF PlaceBuffer
      <4>6. stop'[v] = stop[v] /\ head'[v] = head[v] BY <1>8, <3>2
      <4>7. /\ Length(v)' <= stop'[v] /\ stop'[v] <= Len(units')
            /\ stop'[v] - Length(v)' <= head'[v] /\ head'[v] <= stop'[v]
        BY <1>3, <1>5, <4>2, <4>3, <4>6
      <4>8. ASSUME NEW i \in head'[v] .. stop'[v] - 1
            PROVE  i \in fresh' /\ units'[i + 1] = v
        <5>1. i \in head[v] .. stop[v] - 1 /\ i \in 0 .. Len(units) - 1 BY <4>2, <4>3, <4>6
        <5>q. QED BY <4>2, <4>4, <4>5, <5>1
      <4>q. QED BY <4>7, <4>8
    <3>q. QED BY <3>1, <3>2
  <2>5. ASSUME NEW u \in PartitionVertices, NEW v \in PartitionVertices, u < v, v < next'
        PROVE  stop'[u] <= stop'[v] - Length(v)'
    <3>1. u # next /\ u < next BY <1>2, <1>3, <2>1, <2>5
    <3>2. CASE v = next
      <4>1. stop[u] <= Len(units) BY <1>1, <2>1, <3>1 DEF BuffersInv
      <4>q. QED BY <1>1, <1>3, <1>6, <1>8, <2>2, <3>1, <3>2, <4>1 DEF BasicTypes
    <3>3. CASE v # next
      <4>1. v < next BY <1>2, <1>3, <2>1, <2>5, <3>3
      <4>q. QED BY <1>1, <1>3, <1>8, <2>1, <2>5, <3>1, <3>3, <4>1 DEF BuffersInv
    <3>q. QED BY <3>2, <3>3
  <2>q. QED BY <2>1, <2>3, <2>4, <2>5 DEF BuffersInv
<1>11. HintsInv' BY DEF PlaceBuffer, HintsInv
<1>q. QED BY <1>9, <1>10, <1>11 DEF SamplersIInv, PlaceBuffer, OutInv, SampledOwnEdge, EveryDrawFresh

\* What an action that builds hints has nothing to do with.
LEMMA AddHintKeeps ==
    ASSUME SamplersIInv, class' = "SimilarDegreeDirect", out' = out
    PROVE  /\ BuffersInv'
           /\ (class = "UniformDegreeDirect" => Uniform(adjlists))'
           /\ OutInv'
BY DEF SamplersIInv, BuffersInv, OutInv, SampledOwnEdge, EveryDrawFresh

\* A hint is opened where the degree changes, and closed where the next one is opened.
LEMMA AddHintInv == SamplersIInv /\ AddHint => SamplersIInv'
<1> SUFFICES ASSUME SamplersIInv, AddHint PROVE SamplersIInv'
  OBVIOUS
<1>1. BasicTypes /\ HintsInv BY DEF SamplersIInv
<1>2. /\ class = "SimilarDegreeDirect" /\ class' = class /\ phase = "build" /\ phase' = "build"
      /\ next < VertexEnd /\ next' = next + 1
      /\ UNCHANGED <<adjlists, stop, head, units, fresh, out>>
  BY DEF AddHint
<1>3. /\ next \in PartitionVertices /\ next \in Nat
      /\ VertexBegin \in Int /\ VertexEnd \in Int /\ VertexBegin <= next
  BY <1>1, <1>2, SamplersAssumption DEF BasicTypes, PartitionVertices
<1>4. \A v \in PartitionVertices :
         /\ v \in Nat /\ VertexBegin <= v
         /\ Degree(v) \in Nat \ {0} /\ Begin(v) \in Nat
         /\ Degree(v)' = Degree(v) /\ Begin(v)' = Begin(v)
  BY <1>1, <1>2, LayoutTypes DEF BasicTypes, Degree, Begin
<1>0. PartitionVertices \subseteq Nat /\ \A v \in PartitionVertices : Degree(v) \in Nat BY <1>4
<1>a. \A b \in PartitionVertices : b < next => b <= next /\ b < next' BY <1>0, <1>2, <1>3
<1>5. hints \in Seq(HintType) /\ Len(hints) \in Nat BY <1>1 DEF BasicTypes
<1> DEFINE n == Len(hints)
           opened == [degree |-> Degree(next), vertexBegin |-> next,
                      vertexEnd |-> 0, edgeBegin |-> Begin(next)]
           closed == CloseRun(next)
<1>6. opened \in HintType BY <1>3, <1>4 DEF HintType
<1>7. /\ closed \in Seq(HintType) /\ Len(closed) = n
      /\ \A h \in 1 .. n : /\ closed[h].degree = hints[h].degree
                            /\ closed[h].vertexBegin = hints[h].vertexBegin
                            /\ closed[h].edgeBegin = hints[h].edgeBegin
                            /\ closed[h].vertexEnd = IF h = n THEN next ELSE hints[h].vertexEnd
  <2>1. CASE hints = << >> BY <1>5, <2>1 DEF CloseRun
  <2>2. CASE hints # << >>
    <3>1. n \in 1 .. n /\ hints[n] \in HintType BY <1>5, <2>2
    <3>2. closed = [hints EXCEPT ![n] = [hints[n] EXCEPT !.vertexEnd = next]]
      BY <2>2 DEF CloseRun
    <3>3. [hints[n] EXCEPT !.vertexEnd = next] \in HintType BY <1>3, <3>1 DEF HintType
    <3>4. closed \in Seq(HintType) /\ Len(closed) = n /\ \A h \in 1 .. n :
             closed[h] = IF h = n THEN [hints[n] EXCEPT !.vertexEnd = next] ELSE hints[h]
      BY <1>5, <3>1, <3>2, <3>3, ExceptSeq
    <3>5. /\ [hints[n] EXCEPT !.vertexEnd = next].degree = hints[n].degree
          /\ [hints[n] EXCEPT !.vertexEnd = next].vertexBegin = hints[n].vertexBegin
          /\ [hints[n] EXCEPT !.vertexEnd = next].edgeBegin = hints[n].edgeBegin
          /\ [hints[n] EXCEPT !.vertexEnd = next].vertexEnd = next
      BY <3>1 DEF HintType
    <3>q. QED BY <3>4, <3>5
  <2>q. QED BY <2>1, <2>2
<1>8. BasicTypes'
  <2>1. hints' \in Seq(HintType) BY <1>5, <1>6, <1>7 DEF AddHint
  <2>2. next' \in VertexBegin .. VertexEnd BY <1>2, <1>3
  <2>q. QED BY <1>1, <1>2, <2>1, <2>2 DEF BasicTypes
<1>9. /\ hints = << >> <=> next = VertexBegin
      /\ n > 0 => n <= Degree(VertexBegin) - hints[n].degree + 1
      /\ n > 0 => hints[1].vertexBegin = VertexBegin
      /\ n = 0 <=> hints = << >>
      /\ Similar(adjlists)
  BY <1>1, <1>2, <1>5 DEF HintsInv
<1>10. \A h \in 1 .. n :
          /\ hints[h].vertexBegin \in PartitionVertices /\ hints[h].vertexBegin < next
          /\ hints[h].degree = Degree(hints[h].vertexBegin)
          /\ hints[h].edgeBegin = Begin(hints[h].vertexBegin)
          /\ \A v \in PartitionVertices :
                hints[h].vertexBegin <= v /\ v < RunEnd(h) => Degree(v) = hints[h].degree
          /\ h < n => hints[h].vertexEnd = RunEnd(h)
  BY <1>1, <1>2 DEF HintsInv
<1>11. VertexBegin \in PartitionVertices BY SamplersAssumption DEF PartitionVertices
<1>12. CASE NewRun
  <2>1. hints' = Append(closed, opened) BY <1>12 DEF AddHint
  <2>2. Len(hints') = n + 1 /\ hints'[n + 1] = opened /\ \A h \in 1 .. n : hints'[h] = closed[h]
    BY <1>5, <1>6, <1>7, <2>1
  <2>3. \A h \in 1 .. n : RunEnd(h)' = RunEnd(h)
    <3>1. \A h \in 1 .. n : h = n => RunEnd(h)' = next /\ RunEnd(h) = next
      BY <1>5, <2>2 DEF RunEnd
    <3>2. \A h \in 1 .. n : h # n => RunEnd(h)' = hints[h + 1].vertexBegin
      BY <1>5, <1>7, <2>2 DEF RunEnd
    <3>q. QED BY <1>5, <3>1, <3>2 DEF RunEnd
  <2>4. n + 1 <= Degree(VertexBegin) - Degree(next) + 1
    <3>1. CASE n = 0 BY <1>4, <1>9, <1>11, <3>1
    <3>2. CASE n > 0
      <4>1. n \in 1 .. n BY <1>5, <3>2
      <4>2. hints[n].degree # Degree(next) BY <1>9, <1>12, <3>2 DEF NewRun
      <4>3. /\ hints[n].vertexBegin \in PartitionVertices /\ hints[n].vertexBegin < next
            /\ hints[n].degree = Degree(hints[n].vertexBegin)
        BY <1>10, <4>1
      <4>4. Degree(next) <= Degree(hints[n].vertexBegin)
        <5>1. \A u, v \in PartitionVertices : u <= v => Degree(v) <= Degree(u)
          BY <1>1, LayoutSorted DEF BasicTypes
        <5>2. hints[n].vertexBegin <= next BY <1>a, <4>3
        <5>q. QED BY <1>3, <4>3, <5>1, <5>2
      <4>5. /\ hints[n].degree \in Nat /\ Degree(next) \in Nat /\ Degree(VertexBegin) \in Nat
            /\ Degree(next) <= hints[n].degree
        BY <1>0, <1>3, <1>11, <4>3, <4>4
      <4>q. QED BY <1>5, <1>9, <3>2, <4>2, <4>5
    <3>q. QED BY <1>5, <3>1, <3>2
  <2>5. hints'[1].vertexBegin = VertexBegin
    <3>1. CASE n = 0
      <4>1. hints'[1] = opened BY <2>2, <3>1
      <4>2. next = VertexBegin BY <1>9, <3>1
      <4>q. QED BY <4>1, <4>2
    <3>2. CASE n > 0
      <4>1. 1 \in 1 .. n BY <1>5, <3>2
      <4>2. hints'[1].vertexBegin = hints[1].vertexBegin BY <1>7, <2>2, <4>1
      <4>q. QED BY <1>9, <3>2, <4>2
    <3>q. QED BY <1>5, <3>1, <3>2
  <2>6. ASSUME NEW h \in 1 .. n + 1
        PROVE  /\ hints'[h].vertexBegin \in PartitionVertices /\ hints'[h].vertexBegin < next'
               /\ hints'[h].degree = Degree(hints[h].vertexBegin)'
               /\ hints'[h].edgeBegin = Begin(hints[h].vertexBegin)'
               /\ \A v \in PartitionVertices :
                     hints'[h].vertexBegin <= v /\ v < RunEnd(h)' => Degree(v)' = hints'[h].degree
               /\ h < n + 1 => hints'[h].vertexEnd = RunEnd(h)'
    <3>1. CASE h = n + 1
      <4>1. RunEnd(h)' = next + 1 BY <1>2, <2>2, <3>1 DEF RunEnd
      <4>2. \A v \in PartitionVertices : next <= v /\ v < next + 1 => v = next BY <1>3, <1>4
      <4>3. hints'[h] = opened BY <2>2, <3>1
      <4>4. /\ opened.vertexBegin = next /\ opened.degree = Degree(next) /\ opened.edgeBegin = Begin(next)
        OBVIOUS
      <4>5. next < next' BY <1>2, <1>3
      <4>6. /\ Degree(hints[h].vertexBegin)' = Degree(next)
            /\ Begin(hints[h].vertexBegin)' = Begin(next)
        BY <1>2, <4>3, <4>4 DEF Degree, Begin
      <4>q. QED BY <1>3, <1>4, <1>5, <3>1, <4>1, <4>2, <4>3, <4>4, <4>5, <4>6
    <3>2. CASE h # n + 1
      <4>1. h \in 1 .. n BY <1>5, <3>2
      <4>2. hints'[h] = closed[h] BY <2>2, <4>1
      <4>3. h = n => RunEnd(h)' = next BY <1>5, <2>2, <4>1 DEF RunEnd
      <4>4. /\ hints'[h].vertexBegin = hints[h].vertexBegin /\ hints'[h].degree = hints[h].degree
            /\ hints'[h].edgeBegin = hints[h].edgeBegin
            /\ hints'[h].vertexEnd = IF h = n THEN next ELSE hints[h].vertexEnd
        BY <1>7, <4>1, <4>2
      <4>5. /\ hints[h].vertexBegin \in PartitionVertices /\ hints[h].vertexBegin < next
            /\ hints[h].degree = Degree(hints[h].vertexBegin)
            /\ hints[h].edgeBegin = Begin(hints[h].vertexBegin)
        BY <1>10, <4>1
      <4>6. /\ Degree(hints[h].vertexBegin)' = Degree(hints[h].vertexBegin)
            /\ Begin(hints[h].vertexBegin)' = Begin(hints[h].vertexBegin)
        BY <1>2, <4>4 DEF Degree, Begin
      <4>7. hints'[h].vertexBegin < next' BY <1>a, <4>4, <4>5
      <4>8. hints'[h].vertexEnd = RunEnd(h)' BY <1>5, <1>10, <2>3, <4>1, <4>3, <4>4
      <4>9. \A v \in PartitionVertices :
               hints'[h].vertexBegin <= v /\ v < RunEnd(h)' => Degree(v)' = hints'[h].degree
        BY <1>4, <1>10, <2>3, <4>1, <4>4
      <4>q. QED BY <4>4, <4>5, <4>6, <4>7, <4>8, <4>9
    <3>q. QED BY <3>1, <3>2
  <2>7. hints' # << >> /\ next' # VertexBegin /\ phase' # "ready"
    BY <1>2, <1>3, <1>5, <2>2
  <2>8. Similar(adjlists)' BY <1>2, <1>9 DEF Similar
  <2>9. Len(hints') <= Degree(VertexBegin)' - hints'[Len(hints')].degree + 1
    BY <1>4, <1>11, <2>2, <2>4
  <2>10. HintsInv' BY <1>2, <2>2, <2>5, <2>6, <2>7, <2>8, <2>9 DEF HintsInv
  <2>q. QED BY <1>2, <1>8, <2>10, AddHintKeeps DEF SamplersIInv
<1>13. CASE ~NewRun
  <2>1. hints' = hints BY <1>13 DEF AddHint
  <2>2. n \in 1 .. n /\ hints # << >> /\ hints[n].degree = Degree(next)
    BY <1>5, <1>9, <1>13 DEF NewRun
  <2>3. \A h \in 1 .. n : /\ h = n => RunEnd(h) = next /\ RunEnd(h)' = next + 1
                          /\ h # n => RunEnd(h)' = RunEnd(h)
    BY <1>2, <1>5, <2>1 DEF RunEnd
  <2>4. ASSUME NEW h \in 1 .. n
        PROVE  /\ hints'[h].vertexBegin \in PartitionVertices /\ hints'[h].vertexBegin < next'
               /\ hints'[h].degree = Degree(hints[h].vertexBegin)'
               /\ hints'[h].edgeBegin = Begin(hints[h].vertexBegin)'
               /\ \A v \in PartitionVertices :
                     hints'[h].vertexBegin <= v /\ v < RunEnd(h)' => Degree(v)' = hints'[h].degree
               /\ h < n => hints'[h].vertexEnd = RunEnd(h)'
    <3>1. /\ hints[h].vertexBegin \in PartitionVertices /\ hints[h].vertexBegin < next
          /\ hints[h].degree = Degree(hints[h].vertexBegin)
          /\ hints[h].edgeBegin = Begin(hints[h].vertexBegin)
          /\ h < n => hints[h].vertexEnd = RunEnd(h)
      BY <1>10
    <3>2. /\ Degree(hints[h].vertexBegin)' = Degree(hints[h].vertexBegin)
          /\ Begin(hints[h].vertexBegin)' = Begin(hints[h].vertexBegin)
      BY <1>2, <2>1 DEF Degree, Begin
    <3>3. hints'[h].vertexBegin < next' BY <1>a, <2>1, <3>1
    <3>4. h < n => hints'[h].vertexEnd = RunEnd(h)' BY <1>5, <2>1, <2>3, <3>1
    <3>5. ASSUME NEW v \in PartitionVertices, hints'[h].vertexBegin <= v, v < RunEnd(h)'
          PROVE  Degree(v)' = hints'[h].degree
      <4>1. Degree(v)' = Degree(v) BY <1>4
      <4>2. CASE v < RunEnd(h) BY <1>10, <2>1, <3>5, <4>1, <4>2
      <4>3. CASE ~(v < RunEnd(h))
        <5>1. h = n BY <2>3, <3>5, <4>3
        <5>2. v < next + 1 /\ ~(v < next) /\ v \in Nat BY <1>0, <2>3, <3>5, <4>3, <5>1
        <5>3. v = next BY <1>3, <5>2
        <5>q. QED BY <2>1, <2>2, <4>1, <5>1, <5>3
      <4>q. QED BY <4>2, <4>3
    <3>q. QED BY <2>1, <3>1, <3>2, <3>3, <3>4, <3>5
  <2>5. hints' # << >> /\ next' # VertexBegin /\ phase' # "ready"
    BY <1>2, <1>3, <2>1, <2>2
  <2>6. Similar(adjlists)' BY <1>2, <1>9 DEF Similar
  <2>7. Len(hints') <= Degree(VertexBegin)' - hints'[Len(hints')].degree + 1
    BY <1>4, <1>5, <1>9, <1>11, <2>1, <2>2
  <2>8. hints'[1].vertexBegin = VertexBegin BY <1>5, <1>9, <2>1, <2>2
  <2>9. HintsInv' BY <1>2, <2>1, <2>4, <2>5, <2>6, <2>7, <2>8 DEF HintsInv
  <2>q. QED BY <1>2, <1>8, <2>9, AddHintKeeps DEF SamplersIInv
<1>q. QED BY <1>12, <1>13

\* Building ends when every vertex has its place: the last run ends with the partition.
LEMMA BuiltInv == SamplersIInv /\ Built => SamplersIInv'
<1> SUFFICES ASSUME SamplersIInv, Built PROVE SamplersIInv'
  OBVIOUS
<1>1. BasicTypes /\ BuffersInv /\ HintsInv BY DEF SamplersIInv
<1>2. /\ phase = "build" /\ phase' = "ready" /\ UNCHANGED <<next, class, adjlists, stop, head, units, fresh, out>>
      /\ next = VertexEnd \/ class \in {"UniformDegreeDirect", "Direct"}
  BY DEF Built
<1>3. (class = "UniformDegreeDirect" => Uniform(adjlists))' /\ OutInv'
  BY <1>2 DEF SamplersIInv, Uniform, OutInv, SampledOwnEdge, EveryDrawFresh
<1>4. BuffersInv'
  BY <1>1, <1>2 DEF BuffersInv, PlacedEnd, Length, Degree
<1>5. CASE class # "SimilarDegreeDirect"
  <2>1. hints' = hints BY <1>5 DEF Built
  <2>q. QED BY <1>1, <1>2, <1>3, <1>4, <1>5, <2>1 DEF SamplersIInv, BasicTypes, HintsInv
<1>6. CASE class = "SimilarDegreeDirect"
  <2> DEFINE n == Len(hints)
  <2>1. hints \in Seq(HintType) /\ n \in Nat BY <1>1 DEF BasicTypes
  <2>2. next = VertexEnd /\ next \in Nat /\ next # VertexBegin
    BY <1>2, <1>6, SamplersAssumption
  <2>3. hints # << >> /\ n \in 1 .. n BY <1>1, <1>6, <2>1, <2>2 DEF HintsInv
  <2>4. hints' = [hints EXCEPT ![n] = [hints[n] EXCEPT !.vertexEnd = VertexEnd]]
    BY <1>6, <2>3 DEF Built, CloseRun
  <2>5. [hints[n] EXCEPT !.vertexEnd = VertexEnd] \in HintType
    <3>1. hints[n] \in HintType /\ VertexEnd \in Nat BY <2>1, <2>2, <2>3
    <3>q. QED BY <3>1 DEF HintType
  <2>6. hints' \in Seq(HintType) /\ Len(hints') = n /\ \A h \in 1 .. n :
           hints'[h] = IF h = n THEN [hints[n] EXCEPT !.vertexEnd = VertexEnd] ELSE hints[h]
    BY <2>1, <2>3, <2>4, <2>5, ExceptSeq
  <2>7. \A h \in 1 .. n : /\ hints'[h].degree = hints[h].degree
                          /\ hints'[h].vertexBegin = hints[h].vertexBegin
                          /\ hints'[h].edgeBegin = hints[h].edgeBegin
                          /\ hints'[h].vertexEnd = IF h = n THEN next ELSE hints[h].vertexEnd
    <3>1. hints[n] \in HintType BY <2>1, <2>3
    <3>2. /\ [hints[n] EXCEPT !.vertexEnd = VertexEnd].degree = hints[n].degree
          /\ [hints[n] EXCEPT !.vertexEnd = VertexEnd].vertexBegin = hints[n].vertexBegin
          /\ [hints[n] EXCEPT !.vertexEnd = VertexEnd].edgeBegin = hints[n].edgeBegin
          /\ [hints[n] EXCEPT !.vertexEnd = VertexEnd].vertexEnd = VertexEnd
      BY <3>1 DEF HintType
    <3>q. QED BY <2>2, <2>6, <3>2
  <2>8. \A h \in 1 .. n : RunEnd(h)' = RunEnd(h) /\ (h = n => RunEnd(h) = next)
    <3>1. \A h \in 1 .. n : h # n => h + 1 \in 1 .. n BY <2>1
    <3>q. QED BY <1>2, <2>1, <2>6, <2>7, <3>1 DEF RunEnd
  <2>9. /\ Similar(adjlists)
        /\ n <= Degree(VertexBegin) - hints[n].degree + 1
        /\ hints[1].vertexBegin = VertexBegin
        /\ \A h \in 1 .. n :
              /\ hints[h].vertexBegin \in PartitionVertices /\ hints[h].vertexBegin < next
              /\ hints[h].degree = Degree(hints[h].vertexBegin)
              /\ hints[h].edgeBegin = Begin(hints[h].vertexBegin)
              /\ \A v \in PartitionVertices :
                    hints[h].vertexBegin <= v /\ v < RunEnd(h) => Degree(v) = hints[h].degree
              /\ h < n => hints[h].vertexEnd = RunEnd(h)
    BY <1>1, <1>6, <2>3 DEF HintsInv
  <2>10. /\ Similar(adjlists)' /\ hints' # << >> /\ next' = VertexEnd /\ next' # VertexBegin
         /\ Len(hints') <= Degree(VertexBegin)' - hints'[Len(hints')].degree + 1
         /\ hints'[1].vertexBegin = VertexBegin
    <3>1. Similar(adjlists)' BY <1>2, <2>9 DEF Similar
    <3>2. Degree(VertexBegin)' = Degree(VertexBegin) BY <1>2 DEF Degree
    <3>3. hints' # << >> BY <2>1, <2>3, <2>6
    <3>q. QED BY <1>2, <2>1, <2>2, <2>3, <2>6, <2>7, <2>9, <3>1, <3>2, <3>3
  <2>11. ASSUME NEW h \in 1 .. n
         PROVE  /\ hints'[h].vertexBegin \in PartitionVertices /\ hints'[h].vertexBegin < next'
                /\ hints'[h].degree = Degree(hints[h].vertexBegin)'
                /\ hints'[h].edgeBegin = Begin(hints[h].vertexBegin)'
                /\ \A v \in PartitionVertices :
                      hints'[h].vertexBegin <= v /\ v < RunEnd(h)' => Degree(v)' = hints'[h].degree
                /\ hints'[h].vertexEnd = RunEnd(h)'
    <3>1. /\ Degree(hints[h].vertexBegin)' = Degree(hints[h].vertexBegin)
          /\ Begin(hints[h].vertexBegin)' = Begin(hints[h].vertexBegin)
          /\ \A v \in PartitionVertices : Degree(v)' = Degree(v)
      BY <1>2, <2>7 DEF Degree, Begin
    <3>2. h < n \/ h = n BY <2>1
    <3>3. hints'[h].vertexEnd = RunEnd(h)' BY <2>7, <2>8, <2>9, <3>2
    <3>q. QED BY <1>2, <2>7, <2>8, <2>9, <3>1, <3>3
  <2>12. HintsInv' BY <2>6, <2>10, <2>11 DEF HintsInv
  <2>q. QED BY <1>1, <1>2, <1>3, <1>4, <2>6, <2>12 DEF SamplersIInv, BasicTypes
<1>q. QED BY <1>5, <1>6

(***************************************************************************)
(* A sample from a buffer: if the buffer was empty it is drawn anew as a   *)
(* whole, and in both cases the entry at the head is taken out.            *)
(***************************************************************************)
LEMMA SampleBufferInv ==
    ASSUME SamplersIInv, NEW v \in PartitionVertices, SampleBuffer(v)
    PROVE  SamplersIInv'
<1> DEFINE at == IF head[v] = stop[v] THEN stop[v] - Length(v) ELSE head[v]
           filled == IF head[v] = stop[v] THEN stop[v] - Length(v) .. head[v] - 1 ELSE {}
<1>1. BasicTypes /\ BuffersInv BY DEF SamplersIInv
<1>2. /\ class = "ExclusiveBuffer" /\ phase = "ready" /\ next = VertexEnd
      /\ units' = [i \in DOMAIN units |-> IF i - 1 \in filled THEN v ELSE units[i]]
      /\ fresh' = (fresh \cup filled) \ {at}
      /\ head' = [head EXCEPT ![v] = at + 1]
      /\ out' = [asked |-> v, answer |-> units'[at + 1], isFresh |-> at \in fresh \cup filled]
      /\ UNCHANGED <<phase, next, class, adjlists, stop, hints>>
  BY <1>1 DEF SampleBuffer, Length, Filled, BuffersInv
<1>3. /\ \A u \in PartitionVertices :
           /\ u \in Nat /\ u < next /\ Length(u) \in Nat \ {0} /\ Length(u)' = Length(u)
           /\ stop[u] \in Nat /\ head[u] \in Nat
      /\ units \in Seq(Int) /\ Len(units) \in Nat
  BY <1>1, <1>2, LayoutTypes, LengthType DEF BasicTypes, Length, Degree
<1>4. \A u \in PartitionVertices :
         /\ Length(u) <= stop[u] /\ stop[u] <= Len(units)
         /\ stop[u] - Length(u) <= head[u] /\ head[u] <= stop[u]
         /\ \A i \in head[u] .. stop[u] - 1 : i \in fresh /\ units[i + 1] = u
  BY <1>1, <1>2, <1>3 DEF BuffersInv
<1>5. \A u, w \in PartitionVertices : u < w => stop[u] <= stop[w] - Length(w)
  BY <1>1, <1>2, <1>3 DEF BuffersInv
<1>6. at \in Nat /\ stop[v] - Length(v) <= at /\ at < stop[v] /\ at < Len(units)
  BY <1>3, <1>4
<1>7. /\ units' \in Seq(Int) /\ Len(units') = Len(units)
      /\ \A i \in 0 .. Len(units) - 1 : units'[i + 1] = IF i \in filled THEN v ELSE units[i + 1]
  <2>1. DOMAIN units = 1 .. Len(units) /\ \A i \in 1 .. Len(units) : units[i] \in Int BY <1>3
  <2>2. units' = [i \in 1 .. Len(units) |-> IF i - 1 \in filled THEN v ELSE units[i]]
    BY <1>2, <2>1
  <2>3. \A i \in 1 .. Len(units) : (IF i - 1 \in filled THEN v ELSE units[i]) \in Int
    BY <1>3, <2>1
  <2>4. units' \in Seq(Int) /\ Len(units') = Len(units)
    BY <1>3, <2>2, <2>3
  <2>5. \A i \in 0 .. Len(units) - 1 : i + 1 \in 1 .. Len(units) /\ (i + 1) - 1 = i BY <1>3
  <2> HIDE DEF at, filled
  <2>q. QED BY <2>2, <2>4, <2>5
<1>8. \A i \in at .. stop[v] - 1 : i \in fresh \cup filled /\ units'[i + 1] = v
  <2>1. CASE head[v] = stop[v]
    <3>1. at .. stop[v] - 1 \subseteq filled BY <1>6, <2>1
    <3>2. stop[v] \in Nat /\ stop[v] <= Len(units) /\ Len(units) \in Nat BY <1>3, <1>4
    <3> HIDE DEF at, filled
    <3>3. \A i \in at .. stop[v] - 1 : i \in 0 .. Len(units) - 1 BY <1>6, <3>2
    <3>q. QED BY <1>7, <3>1, <3>3
  <2>2. CASE head[v] # stop[v]
    <3>1. filled = {} /\ at = head[v] BY <2>2
    <3>2. \A i \in head[v] .. stop[v] - 1 : i \in 0 .. Len(units) - 1
      <4>1. head[v] \in Nat /\ stop[v] \in Nat /\ stop[v] <= Len(units) BY <1>3, <1>4
      <4>q. QED BY <1>3, <4>1
    <3>3. \A i \in head[v] .. stop[v] - 1 : i \in fresh /\ units'[i + 1] = v
      BY <1>4, <1>7, <3>1, <3>2
    <3>q. QED BY <3>1, <3>3
  <2>q. QED BY <2>1, <2>2
<1>9. OutInv'
  <2>1. at \in fresh \cup filled /\ units'[at + 1] = v BY <1>3, <1>6, <1>8
  <2>2. v \in Int BY <1>3
  <2>q. QED BY <1>2, <2>1, <2>2 DEF OutInv, SampledOwnEdge, EveryDrawFresh
<1>10. BasicTypes'
  <2>1. filled \subseteq Nat BY <1>3, <1>4
  <2>2. head' \in [PartitionVertices -> Nat] BY <1>1, <1>2, <1>6 DEF BasicTypes
  <2>q. QED BY <1>1, <1>2, <1>7, <2>1, <2>2 DEF BasicTypes
<1>11. ASSUME NEW u \in PartitionVertices
       PROVE  /\ Length(u)' <= stop'[u] /\ stop'[u] <= Len(units')
              /\ stop'[u] - Length(u)' <= head'[u] /\ head'[u] <= stop'[u]
              /\ \A i \in head'[u] .. stop'[u] - 1 : i \in fresh' /\ units'[i + 1] = u
  <2>1. Length(u)' <= stop'[u] /\ stop'[u] <= Len(units') /\ stop'[u] = stop[u] /\ Length(u)' = Length(u)
    BY <1>2, <1>3, <1>4, <1>7
  <2>2. CASE u = v
    <3>1. head'[v] = at + 1 BY <1>1, <1>2 DEF BasicTypes
    <3>2. \A i \in at + 1 .. stop[v] - 1 : i \in fresh' /\ units'[i + 1] = v
      <4>0. at \in Nat /\ stop[v] \in Nat BY <1>3, <1>6
      <4> HIDE DEF at, filled
      <4>1. \A i \in at + 1 .. stop[v] - 1 : i \in at .. stop[v] - 1 /\ i # at BY <4>0
      <4>q. QED BY <1>2, <1>8, <4>1
    <3>q. QED BY <1>3, <1>6, <2>1, <2>2, <3>1, <3>2
  <2>3. CASE u # v
    <3>1. head'[u] = head[u] BY <1>1, <1>2, <2>3 DEF BasicTypes
    <3>2. stop[u] <= stop[v] - Length(v) \/ stop[v] <= stop[u] - Length(u)
      BY <1>3, <1>5, <2>3
    <3>3. ASSUME NEW i \in head[u] .. stop[u] - 1
          PROVE  i \in fresh' /\ units'[i + 1] = u
      <4>0. /\ stop[u] \in Nat /\ head[u] \in Nat /\ Length(u) \in Nat
            /\ stop[v] \in Nat /\ head[v] \in Nat /\ Length(v) \in Nat
            /\ stop[u] - Length(u) <= head[u] /\ stop[u] <= Len(units) /\ head[v] <= stop[v]
        BY <1>3, <1>4
      <4>1. i \in Nat /\ (i < stop[v] - Length(v) \/ i >= stop[v]) BY <3>2, <4>0
      <4>2. i # at /\ i \notin filled BY <1>6, <4>0, <4>1
      <4>3. i \in 0 .. Len(units) - 1 BY <1>3, <4>0
      <4>q. QED BY <1>2, <1>4, <1>7, <4>2, <4>3
    <3>q. QED BY <1>4, <2>1, <3>1, <3>3
  <2>q. QED BY <2>2, <2>3
<1>12. BuffersInv'
  <2>1. Len(units') = PlacedEnd' BY <1>1, <1>2, <1>7 DEF BuffersInv, PlacedEnd
  <2>2. \A u, w \in PartitionVertices : u < w => stop'[u] <= stop'[w] - Length(w)'
    BY <1>2, <1>3, <1>5
  <2>q. QED BY <1>2, <1>11, <2>1, <2>2 DEF BuffersInv
<1>q. QED BY <1>2, <1>9, <1>10, <1>12 DEF SamplersIInv, HintsInv

\* The direct samplers change nothing but the answer, and answer with an edge of v's list.
LEMMA SampleDirectInv ==
    ASSUME SamplersIInv, NEW v \in PartitionVertices, SampleDirect(v)
    PROVE  SamplersIInv'
<1>1. OutInv'
  <2>1. adjlists \in Layouts BY DEF SamplersIInv, BasicTypes
  <2>2. PICK r \in 0 .. Degree(v) - 1 : Answer(v, Begin(v) + r) BY DEF SampleDirect
  <2>q. QED BY <2>1, <2>2, DirectAnswer
<1>q. QED
  BY <1>1 DEF SampleDirect, SamplersIInv, BasicTypes, BuffersInv, HintsInv, PlacedEnd, Length,
              Degree, Begin, RunEnd, Uniform, Similar

\* With one degree for all, the address of the v-th list follows from the first one's.
LEMMA SampleUniformInv ==
    ASSUME SamplersIInv, NEW v \in PartitionVertices, SampleUniform(v)
    PROVE  SamplersIInv'
<1>1. OutInv'
  <2>1. adjlists \in Layouts /\ Uniform(adjlists) BY DEF SamplersIInv, BasicTypes, SampleUniform
  <2>2. VertexBegin \in PartitionVertices BY SamplersAssumption DEF PartitionVertices
  <2>3. VertexBegin <= v BY <2>1, LayoutTypes
  <2>4. Degree(VertexBegin) = Degree(v) BY <2>1, <2>2, SameDegree
  <2>5. Begin(v) = Begin(VertexBegin) + (v - VertexBegin) * Degree(VertexBegin)
    BY <2>1, <2>2, <2>3, <2>4, LayoutEven
  <2>6. PICK r \in 0 .. Degree(VertexBegin) - 1 :
           Answer(v, Begin(VertexBegin) + (v - VertexBegin) * Degree(VertexBegin) + r)
    BY DEF SampleUniform
  <2>7. Answer(v, Begin(v) + r) BY <2>5, <2>6
  <2>q. QED BY <2>1, <2>4, <2>6, <2>7, DirectAnswer
<1>q. QED
  BY <1>1 DEF SampleUniform, SamplersIInv, BasicTypes, BuffersInv, HintsInv, PlacedEnd, Length,
              Degree, Begin, RunEnd, Uniform, Similar

\* The runs of the hints follow one another up to the end of the partition.
LEMMA SampleSimilarInv ==
    ASSUME SamplersIInv, NEW v \in PartitionVertices, SampleSimilar(v)
    PROVE  SamplersIInv'
<1>1. adjlists \in Layouts /\ hints \in Seq(HintType) /\ DOMAIN hints = 1 .. Len(hints) /\ Len(hints) \in Nat
  BY DEF SamplersIInv, BasicTypes
<1>2. class = "SimilarDegreeDirect" /\ phase = "ready" BY DEF SampleSimilar
<1>3. /\ next = VertexEnd /\ next # VertexBegin /\ hints # << >>
      /\ hints[1].vertexBegin = VertexBegin
      /\ \A h \in 1 .. Len(hints) :
            /\ hints[h].vertexBegin \in PartitionVertices
            /\ hints[h].degree = Degree(hints[h].vertexBegin)
            /\ hints[h].edgeBegin = Begin(hints[h].vertexBegin)
            /\ \A u \in PartitionVertices :
                  hints[h].vertexBegin <= u /\ u < hints[h].vertexEnd => Degree(u) = hints[h].degree
            /\ hints[h].vertexEnd = RunEnd(h)
  <2>1. HintsInv BY DEF SamplersIInv
  <2>2. next # VertexBegin BY <1>2, <2>1, SamplersAssumption DEF HintsInv
  <2>q. QED BY <1>2, <2>1, <2>2 DEF HintsInv
<1>4. v \in Nat /\ VertexBegin <= v /\ v < VertexEnd BY <1>1, LayoutTypes
<1>5. OutInv'
  <2>1. Len(hints) \in DOMAIN hints /\ hints[Len(hints)].vertexEnd = VertexEnd
    BY <1>1, <1>3 DEF RunEnd
  <2>2. ~ \A h \in DOMAIN hints : hints[h].vertexEnd <= v
    BY <1>4, <2>1, SamplersAssumption
  <2>3. PICK h \in DOMAIN hints :
           /\ v < hints[h].vertexEnd
           /\ \A k \in 1 .. h - 1 : hints[k].vertexEnd <= v
           /\ \E r \in 0 .. hints[h].degree - 1 :
                 Answer(v, hints[h].edgeBegin + (v - hints[h].vertexBegin) * hints[h].degree + r)
    BY <2>2 DEF SampleSimilar
  <2>4. PICK b \in PartitionVertices : b = hints[h].vertexBegin BY <1>1, <1>3, <2>3
  <2>5. b <= v
    <3>1. CASE h = 1 BY <1>3, <1>4, <2>4, <3>1
    <3>2. CASE h # 1
      <4>1. h - 1 \in 1 .. Len(hints) /\ h - 1 \in 1 .. h - 1 /\ h - 1 < Len(hints) /\ (h - 1) + 1 = h
        BY <1>1, <2>3, <3>2
      <4>2. hints[h - 1].vertexEnd = hints[h].vertexBegin BY <1>3, <4>1 DEF RunEnd
      <4>q. QED BY <2>3, <2>4, <4>1, <4>2
    <3>q. QED BY <3>1, <3>2
  <2>6. Degree(b) = Degree(v) /\ hints[h].degree = Degree(v) /\ hints[h].edgeBegin = Begin(b)
    BY <1>1, <1>3, <2>3, <2>4, <2>5
  <2>7. Begin(v) = Begin(b) + (v - b) * Degree(b) BY <1>1, <2>5, <2>6, LayoutEven
  <2>8. PICK r \in 0 .. Degree(v) - 1 : Answer(v, Begin(b) + (v - b) * Degree(b) + r)
    BY <2>3, <2>4, <2>6
  <2>9. Answer(v, Begin(v) + r) BY <2>7, <2>8
  <2>q. QED BY <1>1, <2>9, DirectAnswer
<1>q. QED
  BY <1>5 DEF SampleSimilar, SamplersIInv, BasicTypes, BuffersInv, HintsInv, PlacedEnd, Length,
              Degree, Begin, RunEnd, Uniform, Similar

\* clear makes every buffer an empty one.
LEMMA ClearInv == SamplersIInv /\ Clear => SamplersIInv'
<1> SUFFICES ASSUME SamplersIInv, Clear PROVE SamplersIInv'
  OBVIOUS
<1>1. BasicTypes /\ BuffersInv BY DEF SamplersIInv
<1>2. /\ class = "ExclusiveBuffer" /\ head' = stop /\ fresh' = {}
      /\ UNCHANGED <<phase, next, class, adjlists, stop, units, hints, out>>
  BY DEF Clear
<1>3. BasicTypes' BY <1>1, <1>2 DEF BasicTypes
<1>4. \A v \in PartitionVertices :
         Length(v) \in Nat /\ Length(v)' = Length(v) /\ stop[v] \in Nat
  BY <1>1, <1>2, LengthType DEF BasicTypes, Length, Degree
<1>5. ASSUME NEW v \in PartitionVertices, v < next
      PROVE  /\ Length(v) <= stop[v] /\ stop[v] <= Len(units)
             /\ stop[v] - Length(v) <= stop[v]
             /\ stop[v] .. stop[v] - 1 = {}
  BY <1>1, <1>2, <1>4, <1>5 DEF BuffersInv
<1>6. Len(units') = PlacedEnd' BY <1>1, <1>2 DEF BuffersInv, PlacedEnd
<1>7. BuffersInv'
  BY <1>1, <1>2, <1>4, <1>5, <1>6 DEF BuffersInv
<1>q. QED BY <1>2, <1>3, <1>7 DEF SamplersIInv, HintsInv, OutInv, SampledOwnEdge, EveryDrawFresh

-----------------------------------------------------------------------------
\* The invariant holds in every reachable state.
THEOREM SamplersInvariant == SamplersSpec => []SamplersIInv
<1>1. SamplersIInv /\ [SamplersNext]_samplerVars => SamplersIInv'
  <2> SUFFICES ASSUME SamplersIInv, [SamplersNext]_samplerVars PROVE SamplersIInv'
    OBVIOUS
  <2>1. CASE PlaceBuffer BY <2>1, PlaceBufferInv
  <2>2. CASE AddHint BY <2>2, AddHintInv
  <2>3. CASE Built BY <2>3, BuiltInv
  <2>4. ASSUME NEW v \in PartitionVertices,
               SampleBuffer(v) \/ SampleDirect(v) \/ SampleUniform(v) \/ SampleSimilar(v)
        PROVE  SamplersIInv'
    BY <2>4, SampleBufferInv, SampleDirectInv, SampleUniformInv, SampleSimilarInv
  <2>5. CASE Clear BY <2>5, ClearInv
  <2>6. CASE UNCHANGED samplerVars
    BY <2>6 DEF samplerVars, SamplersIInv, BasicTypes, BuffersInv, HintsInv, PlacedEnd, Length,
                Degree, Begin, RunEnd, Uniform, Similar, OutInv, SampledOwnEdge, EveryDrawFresh
  <2>q. QED BY <2>1, <2>2, <2>3, <2>4, <2>5, <2>6 DEF SamplersNext
<1>q. QED BY <1>1, SamplersInitInv, PTL DEF SamplersSpec

\* The hints outside the class of similar degrees are none; within it degrees bound them.
LEMMA HintsFit == SamplersIInv => Len(hints) <= MaxHintNum
<1> SUFFICES ASSUME SamplersIInv PROVE Len(hints) <= MaxHintNum
  OBVIOUS
<1>1. CASE class = "SimilarDegreeDirect" /\ hints # << >>
  <2>1. hints \in Seq(HintType) /\ adjlists \in Layouts BY DEF SamplersIInv, BasicTypes
  <2>2. Len(hints) \in 1 .. Len(hints) /\ Len(hints) \in Nat BY <1>1, <2>1
  <2>3. /\ Similar(adjlists)
        /\ Len(hints) <= Degree(VertexBegin) - hints[Len(hints)].degree + 1
        /\ hints[Len(hints)].vertexBegin \in PartitionVertices
        /\ hints[Len(hints)].degree = Degree(hints[Len(hints)].vertexBegin)
    BY <1>1, <2>2 DEF SamplersIInv, HintsInv
  <2>4. PICK b \in PartitionVertices : hints[Len(hints)].degree = Degree(b) BY <2>3
  <2>5. VertexBegin \in PartitionVertices BY SamplersAssumption DEF PartitionVertices
  <2>7. Degree(VertexBegin) \in Nat /\ Degree(b) \in Nat BY <2>1, <2>5, LayoutTypes
  <2>6. Degree(VertexBegin) - Degree(b) + 1 <= MaxHintNum
    <3>1. Degree(VertexBegin) - Least(VNum, Degree(b)) + 1 <= MaxHintNum
      BY <2>3, <2>5 DEF Similar, Ahead, Degree
    <3>q. QED BY <2>7, <3>1, SamplersAssumption DEF Least
  <2>q. QED BY <2>2, <2>3, <2>4, <2>6, <2>7, SamplersAssumption
<1>2. CASE hints = << >> BY <1>2, SamplersAssumption
<1>3. hints = << >> \/ class = "SimilarDegreeDirect" BY DEF SamplersIInv, BasicTypes
<1>q. QED BY <1>1, <1>2, <1>3

(***************************************************************************)
(* Types, and with them that init never writes past the array of hints:    *)
(* as many hints as degrees, and Similar leaves room for that many.        *)
(***************************************************************************)
THEOREM SamplersTypeCorrect == SamplersSpec => []SamplersTypeOK
<1>1. SamplersIInv => SamplersTypeOK
  <2> SUFFICES ASSUME SamplersIInv PROVE SamplersTypeOK
    OBVIOUS
  <2>1. BasicTypes /\ OutInv BY DEF SamplersIInv
  <2>2. Len(hints) <= MaxHintNum
    <3>1. Len(hints) \in Nat BY <2>1 DEF BasicTypes
    <3>q. QED BY <2>1, <3>1, HintsFit DEF SamplersIInv
  <2>q. QED BY <2>1, <2>2 DEF BasicTypes, OutInv, SamplersTypeOK, HintType
<1>q. QED BY <1>1, SamplersInvariant, PTL

\* Every answer is an edge of the vertex asked about, for every class of sampler.
THEOREM SamplersOwnEdge == SamplersSpec => []SampledOwnEdge
<1>1. SamplersIInv => SampledOwnEdge BY DEF SamplersIInv, OutInv
<1>q. QED BY <1>1, SamplersInvariant, PTL

\* No prefetched draw is handed out twice, however samples and clears are mixed.
THEOREM SamplersDrawFresh == SamplersSpec => []EveryDrawFresh
<1>1. SamplersIInv => EveryDrawFresh BY DEF SamplersIInv, OutInv
<1>q. QED BY <1>1, SamplersInvariant, PTL

\* The buffers of the vertices never overlap and never leave the partition's units.
THEOREM SamplersBuffersApart == SamplersSpec => []BuffersApart
<1>1. SamplersIInv => BuffersApart
  <2> SUFFICES ASSUME SamplersIInv, phase = "ready", class = "ExclusiveBuffer",
                      NEW v \in PartitionVertices
               PROVE  /\ BufferOf(v) \subseteq 0 .. Len(units) - 1
                      /\ \A u \in PartitionVertices : u # v => BufferOf(u) \cap BufferOf(v) = {}
                      /\ \A i \in head[v] .. stop[v] - 1 :
                            i \in BufferOf(v) /\ i \in fresh /\ units[i + 1] = v
    BY DEF BuffersApart
  <2>1. \A u \in PartitionVertices :
           /\ u \in Nat /\ u < next /\ Length(u) \in Nat
           /\ stop[u] \in Nat /\ head[u] \in Nat /\ Len(units) \in Nat
    BY LayoutTypes, LengthType DEF SamplersIInv, BasicTypes, BuffersInv
  <2>2. \A u \in PartitionVertices :
           /\ Length(u) <= stop[u] /\ stop[u] <= Len(units) /\ stop[u] - Length(u) <= head[u]
           /\ \A i \in head[u] .. stop[u] - 1 : i \in fresh /\ units[i + 1] = u
           /\ BufferOf(u) = stop[u] - Length(u) .. stop[u] - 1
    BY <2>1 DEF SamplersIInv, BuffersInv, BufferOf, Length
  <2>3. BufferOf(v) \subseteq 0 .. Len(units) - 1 BY <2>1, <2>2
  <2>4. ASSUME NEW u \in PartitionVertices, u # v PROVE BufferOf(u) \cap BufferOf(v) = {}
    <3>1. stop[u] <= stop[v] - Length(v) \/ stop[v] <= stop[u] - Length(u)
      BY <2>1, <2>4 DEF SamplersIInv, BuffersInv
    <3>2. /\ BufferOf(u) = stop[u] - Length(u) .. stop[u] - 1
          /\ BufferOf(v) = stop[v] - Length(v) .. stop[v] - 1
      BY <2>2
    <3>3. stop[u] \in Nat /\ stop[v] \in Nat /\ Length(u) \in Nat /\ Length(v) \in Nat BY <2>1
    <3>q. QED BY <3>1, <3>2, <3>3
  <2>5. \A i \in head[v] .. stop[v] - 1 : i \in BufferOf(v) BY <2>1, <2>2
  <2>q. QED BY <2>2, <2>3, <2>4, <2>5
<1>q. QED BY <1>1, SamplersInvariant, PTL
=============================================================================
