------------------------------- MODULE DrmIds -------------------------------
(***************************************************************************)
(* How DRMStream narrows the ids of a board to those that fit a request    *)
(* (drm_utils.cc). The code keeps, for each type of object, an array of    *)
(* ids and a count; removing an id moves the later ones forward and writes *)
(* 0 behind them. An array is modelled as the sequence of its first count  *)
(* elements, so a count that was not reduced shows as a 0 at the end.      *)
(*                                                                         *)
(* "ok" says what the functions return: TRUE, FALSE, or "crash" when they  *)
(* look up an id 0: an assertion fails and, without assertions, a null     *)
(* pointer is used or a loop never ends.                                   *)
(*                                                                         *)
(* A board: for each type the ids in the order of the driver, and          *)
(*   connector[id]: ready (connected, with modes), encoders, encoder, modes *)
(*   encoder[id]:   crtcs (possible_crtcs), crtc (the one in use, or 0)    *)
(*   plane[id]:     crtcs, crtc, formats, type                             *)
(* Ids are below 256 and a connector has at most four encoders (_union).   *)
(***************************************************************************)
EXTENDS Integers, Sequences, SequencesExt, FiniteSetsExt

OkValues == {"true", "false", "crash"}

AllIds(b) == [ok |-> "true", connectors |-> b.connectors, encoders |-> b.encoders,
              crtcs |-> b.crtcs, planes |-> b.planes]

Fail(ids)  == [ids EXCEPT !.ok = "false"]
Crash(ids) == [ids EXCEPT !.ok = "crash"]

Hole(s) == \E i \in DOMAIN s : s[i] = 0

\* The elements of a sequence that are in a set, in their order.
Among(S, s) ==
  LET f[n \in 0..Len(s)] ==
        IF n = 0 THEN <<>> ELSE IF s[n] \in S THEN Append(f[n - 1], s[n]) ELSE f[n - 1]
  IN f[Len(s)]

\* An array read or counted beyond its live elements.
WithCount(s, n) == [i \in 1..n |-> IF i <= Len(s) THEN s[i] ELSE 0]

FailIfNone(ids, s) == IF s = <<>> THEN Fail(ids) ELSE ids

(***************************************************************************)
(* One step of narrowing: one type of ids by another.                      *)
(***************************************************************************)
CrtcsOfEncoders(b, ids) == UNION {b.encoder[e].crtcs : e \in ToSet(ids.encoders)}
CrtcsOfPlanes(b, ids)   == UNION {b.plane[p].crtcs : p \in ToSet(ids.planes)}

\* Every removal starts from the full count: after the second the count is too
\* large by one and the loop reaches a 0.
KeepConnectors(ids, kept) ==
  LET removed == Among(ToSet(ids.connectors) \ kept, ids.connectors) IN
  IF Len(removed) > 1 THEN Crash(ids) ELSE [ids EXCEPT !.connectors = Among(kept, @)]

ConnectorsByEncoders(b, ids) ==
  KeepConnectors(ids, {c \in ToSet(ids.connectors) :
                         ToSet(b.connector[c].encoders) \cap ToSet(ids.encoders) # {}})

\* The number of encoders left is stored as the number of planes.
EncodersByCrtcs(b, ids) ==
  IF Hole(ids.encoders) THEN Crash(ids)
  ELSE LET kept == Among({e \in ToSet(ids.encoders) : b.encoder[e].crtcs \cap ToSet(ids.crtcs) # {}},
                         ids.encoders)
       IN [ids EXCEPT !.encoders = WithCount(kept, Len(ids.encoders)),
                      !.planes = WithCount(ids.planes, Len(kept))]

CrtcsByPossible(ids, possible) == [ids EXCEPT !.crtcs = Among(possible, @)]

\* The planes that satisfy a condition; those that are 0 are looked up too.
KeepPlanes(ids, kept) ==
  IF Hole(ids.planes) THEN Crash(ids) ELSE [ids EXCEPT !.planes = Among(kept, @)]

PlanesByCrtcs(b, ids) ==
  KeepPlanes(ids, {p \in ToSet(ids.planes) \ {0} : b.plane[p].crtcs \cap ToSet(ids.crtcs) # {}})

(***************************************************************************)
(* How a change of one type of ids is passed on to the others.             *)
(***************************************************************************)
FromEncoders(b, ids) ==
  IF Hole(ids.encoders) THEN Crash(ids)
  ELSE LET narrowed == CrtcsByPossible(ids, CrtcsOfEncoders(b, ids))
           planes   == PlanesByCrtcs(b, narrowed)
       IN IF narrowed.crtcs = <<>> THEN Fail(narrowed)
          ELSE IF narrowed.crtcs = ids.crtcs THEN ids
          ELSE IF planes.ok = "crash" THEN planes
          ELSE FailIfNone(planes, planes.planes)

\* _union: the encoders of the first connector are copied by a count of bytes,
\* so only the first arrives; later ones are added if they are new.
FirstUnion(s) == [i \in DOMAIN s |-> IF i = 1 THEN s[1] ELSE 0]

UnionOf(s, t) == IF t = <<>> THEN FirstUnion(s) ELSE t \o Among(ToSet(s) \ ToSet(t), s)

EncodersOfConnectors(b, ids) ==
  FoldLeft(LAMBDA acc, c : UnionOf(b.connector[c].encoders, acc), <<>>, ids.connectors)

\* _intersection ends at the first 0 and counts what follows.
EncodersByUnion(ids, union) == Among(ToSet(union) \cup {0}, ids.encoders)

FromConnectors(b, ids) ==
  LET union == EncodersOfConnectors(b, ids)
      kept  == EncodersByUnion(ids, union)
  IN IF Len(union) > Len(b.encoders) THEN Crash(ids)
     ELSE IF ids.encoders = <<>> THEN Fail(ids)
     ELSE IF Len(kept) = Len(ids.encoders) THEN ids
     ELSE FromEncoders(b, [ids EXCEPT !.encoders = kept])

\* The encoders' count never changes here: EncodersByCrtcs sets the planes'.
FromPlanes(b, ids) ==
  IF Hole(ids.planes) THEN Crash(ids)
  ELSE LET narrowed == CrtcsByPossible(ids, CrtcsOfPlanes(b, ids))
           encoders == EncodersByCrtcs(b, narrowed)
       IN IF narrowed.crtcs = <<>> THEN Fail(narrowed)
          ELSE IF narrowed.crtcs = ids.crtcs THEN ids
          ELSE IF encoders.ok = "crash" THEN encoders
          ELSE FailIfNone(encoders, encoders.encoders)

(***************************************************************************)
(* What the user may ask for.                                              *)
(***************************************************************************)

\* remove_element_except keeps the first id, whichever was asked for.
RemoveElementExcept(s, id) == <<s[1]>>

ReserveConnector(b, ids, id) ==
  IF id \notin ToSet(ids.connectors) THEN Fail(ids)
  ELSE FromConnectors(b, [ids EXCEPT !.connectors = RemoveElementExcept(@, id)])

ReserveEncoder(b, ids, id) ==
  IF id \notin ToSet(ids.encoders) THEN Fail(ids)
  ELSE LET narrowed == ConnectorsByEncoders(b, [ids EXCEPT !.encoders = RemoveElementExcept(@, id)])
       IN IF narrowed.ok = "crash" THEN narrowed
          ELSE IF narrowed.connectors = <<>> THEN Fail(narrowed)
          ELSE FromEncoders(b, narrowed)

\* The encoders' count is unchanged, so it ends there.
ReserveCrtc(b, ids, id) ==
  IF id \notin ToSet(ids.crtcs) THEN Fail(ids)
  ELSE EncodersByCrtcs(b, [ids EXCEPT !.crtcs = RemoveElementExcept(@, id)])

ReservePlane(b, ids, id) ==
  IF id \notin ToSet(ids.planes) THEN Fail(ids)
  ELSE FromPlanes(b, [ids EXCEPT !.planes = RemoveElementExcept(@, id)])

\* The connectors that satisfy a condition, the other ids if any was removed.
ByConnectorCondition(b, ids, kept) ==
  LET narrowed == KeepConnectors(ids, kept) IN
  IF narrowed.ok = "crash" THEN narrowed
  ELSE IF narrowed.connectors = <<>> THEN Fail(narrowed)
  ELSE IF narrowed.connectors = ids.connectors THEN ids
  ELSE FromConnectors(b, narrowed)

Ready(b) == {c \in ToSet(b.connectors) : b.connector[c].ready}

HasFps(b, fps) ==
  {c \in ToSet(b.connectors) : \E m \in ToSet(b.connector[c].modes) : m.fps \in {0, fps}}

HasSize(b, size) ==
  {c \in ToSet(b.connectors) : \E m \in ToSet(b.connector[c].modes) : m.size = size}

HasFormat(b, format) == {p \in ToSet(b.planes) : format \in b.plane[p].formats}

HasType(b, type) == {p \in ToSet(b.planes) : b.plane[p].type = type}

\* The planes that satisfy a condition, the other ids if any was removed.
ByPlaneCondition(b, ids, kept) ==
  LET narrowed == KeepPlanes(ids, kept) IN
  IF narrowed.ok = "crash" \/ narrowed.planes = ids.planes THEN narrowed
  ELSE FromPlanes(b, narrowed)

\* drm_fmt_string_map and plane_type_string_map without their last entries.
ByDataType(b, ids, format) ==
  IF format = "abgr8888" THEN Fail(ids)
  ELSE ByPlaneCondition(b, FailIfNone(ids, ids.planes), HasFormat(b, format))

ByPlaneType(b, ids, type) ==
  IF type = "cursor" THEN Fail(ids)
  ELSE ByPlaneCondition(b, FailIfNone(ids, ids.planes), HasType(b, type))

BySkipped(b, ids, skip) == ByPlaneCondition(b, ids, ToSet(b.planes) \ skip)

(***************************************************************************)
(* The mode: filter_modeinfo steps over the element that follows one it    *)
(* removed. Cond gives 1 for a strict match, 0 for any, -1 for none; the   *)
(* result is the modes left and the index of a strict match, or 0.         *)
(***************************************************************************)
FilterModes(modes, Cond(_)) ==
  LET Step(acc, m) ==
        IF ~acc.skip /\ Cond(m) = -1 THEN [acc EXCEPT !.skip = TRUE]
        ELSE [modes |-> Append(acc.modes, m), skip |-> FALSE,
              index |-> IF ~acc.skip /\ Cond(m) = 1 /\ acc.index <= 1
                        THEN Len(acc.modes) + 1 ELSE acc.index]
  IN FoldLeft(Step, [modes |-> <<>>, skip |-> FALSE, index |-> 0], modes)

BySize(modes, size) == FilterModes(modes, LAMBDA m : IF m.size = size THEN 1 ELSE -1)

ByFps(modes, fps) ==
  FilterModes(modes, LAMBDA m : IF m.fps = 0 THEN 0 ELSE IF m.fps = fps THEN 1 ELSE -1)

Preferred(modes) == FilterModes(modes, LAMBDA m : IF m.preferred THEN 1 ELSE 0)

\* The mode an inactive crtc is set to; None when no mode is left, where the
\* code uses a null pointer.
None == [size |-> 0, fps |-> 0, preferred |-> FALSE]

ChooseMode(all, size, fps) ==
  LET sized == IF size # 0 THEN BySize(all, size).modes ELSE all
      timed == IF fps # 0 THEN ByFps(sized, fps) ELSE [modes |-> sized, index |-> 0]
      index == IF timed.index # 0 THEN timed.index ELSE Preferred(timed.modes).index
  IN IF timed.modes = <<>> THEN None ELSE timed.modes[IF index = 0 THEN 1 ELSE index]

(***************************************************************************)
(* One set of ids that go together.                                        *)
(***************************************************************************)

\* The first possible crtc in use by an encoder of the connector, or else the
\* first possible one.
CrtcByConnector(b, c) ==
  LET encoders == ToSet(b.connector[c].encoders)
      possible == Among(UNION {b.encoder[e].crtcs : e \in encoders}, b.crtcs)
      active   == Among({b.encoder[e].crtc : e \in encoders}, possible)
  IN IF active # <<>> THEN active[1] ELSE possible[1]

EncoderOf(b, c) ==
  IF b.connector[c].encoder > 0 THEN b.connector[c].encoder ELSE b.connector[c].encoders[1]

CrtcOf(b, c) ==
  LET e == EncoderOf(b, c) IN
  IF b.encoder[e].crtc > 0 THEN b.encoder[e].crtc ELSE CrtcByConnector(b, c)

\* Mutant of PlanesOf: a plane in use by another crtc will do.
PlanesInUse(b, ids, c) ==
  Among({p \in ToSet(ids.planes) \ {0} : CrtcOf(b, c) \in b.plane[p].crtcs}, ids.planes)

PlanesOf(b, ids, c) ==
  Among({p \in ToSet(ids.planes) \ {0} : /\ CrtcOf(b, c) \in b.plane[p].crtcs
                                         /\ b.plane[p].crtc \in {0, CrtcOf(b, c)}}, ids.planes)

NoSet == [connector |-> 0, encoder |-> 0, crtc |-> 0, plane |-> 0, active |-> FALSE]

\* The connectors GetAgreeableIDSet tries: size is 0 unless one of them has a
\* mode of the size asked for. It takes the first with a plane.
Tried(b, ids, size) ==
  Among(IF size = 0 THEN ToSet(ids.connectors) ELSE HasSize(b, size), ids.connectors)

WithPlane(b, ids, size) ==
  LET tried == Tried(b, ids, size) IN {i \in DOMAIN tried : PlanesOf(b, ids, tried[i]) # <<>>}

AgreeableSet(b, ids, size) ==
  LET c == Tried(b, ids, size)[Min(WithPlane(b, ids, size))] IN
  [connector |-> c, encoder |-> EncoderOf(b, c), crtc |-> CrtcOf(b, c),
   plane |-> PlanesOf(b, ids, c)[1],
   active |-> b.encoder[EncoderOf(b, c)].crtc = CrtcOf(b, c)]

\* A connector without a plane makes it look at every id, those that are 0 too.
AgreeCrashes(b, ids, size) ==
  /\ Hole(ids.planes)
  /\ Tried(b, ids, size) # <<>> /\ 1 \notin WithPlane(b, ids, size)
=============================================================================
