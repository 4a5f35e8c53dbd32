-------------------------------- MODULE Geo ---------------------------------
(***************************************************************************)
(* The geo commands (commands/exec/geos.rs) and the geohash they search by *)
(* (core/geohash.rs).                                                      *)
(*                                                                         *)
(* A point is stored as a sorted-set score that interleaves the bits of    *)
(* its cell's column and row.  The map is a square of 2^GeoStepMax by      *)
(* 2^GeoStepMax cells; a coordinate counts half cells, so a cell's centre  *)
(* has odd coordinates.  Floating-point trigonometry is replaced by the    *)
(* plane: longitude wraps around, latitude does not, and distances are     *)
(* kept squared.  Everything integer (cells, neighbours, score ranges, the *)
(* choice of the precision) is as in the code.                             *)
(***************************************************************************)
EXTENDS ZSets

CONSTANTS
    GeoStepMax,    \* GEO_STEP_MAX, 26 in the code
    PolarBands     \* the latitudes beyond which the step is reduced by one

ASSUME GeoAssumption == GeoStepMax \in Nat \ {0} /\ \A b \in PolarBands : b \in SUBSET Nat

World == 2^(GeoStepMax + 1)          \* the width of the map in half cells
Coord == 0..World
Abs1(n) == IF n < 0 THEN -n ELSE n

(* `interleave64`: latitude on the even bits, longitude on the odd ones.   *)
Interleaved(y, x) ==
    FoldSet(LAMBDA i, acc : acc + ((y \div 2^i) % 2) * 4^i + 2 * ((x \div 2^i) % 2) * 4^i,
            0, 0..GeoStepMax)
Deinterleave(bits) ==
    LET part(b) == FoldSet(LAMBDA i, acc : acc + ((b \div 4^i) % 2) * 2^i, 0, 0..GeoStepMax)
    IN  [y |-> part(bits), x |-> part(bits \div 2)]

(* A cell at a step: its column and row among 2^step of each.              *)
Encode(lon, lat, step) ==
    [x |-> lon \div 2^(GeoStepMax + 1 - step), y |-> lat \div 2^(GeoStepMax + 1 - step), step |-> step]
AreaOf(h) ==
    LET w == 2^(GeoStepMax + 1 - h.step)
    IN  [lonMin |-> h.x * w, lonMax |-> (h.x + 1) * w, latMin |-> h.y * w, latMax |-> (h.y + 1) * w]
Clamped(n) == Least(n, World)
DecodeScore(score) ==
    With(AreaOf([step |-> GeoStepMax] @@ Deinterleave(score)), LAMBDA a :
        [lon |-> Clamped((a.lonMin + a.lonMax) \div 2), lat |-> Clamped((a.latMin + a.latMax) \div 2)])
ScoreOfPoint(lon, lat) == LET h == Encode(lon, lat, GeoStepMax) IN Interleaved(h.y, h.x)

(* `move_x`, `move_y`: one cell over, wrapping at the edge of the map.     *)
Moved(h, dx, dy) ==
    [h EXCEPT !.x = IF dx = 0 THEN @ ELSE (@ + dx) % 2^h.step,
              !.y = IF dy = 0 THEN @ ELSE (@ + dy) % 2^h.step]

(* Distances.                                                              *)
LonGap(a, b) == LET d == Abs1(a - b) IN Least(d, World - d)
Distance(p, q) == LonGap(p.lon, q.lon)^2 + (p.lat - q.lat)^2

(* A shape: its centre, half its width and height, and whether it is the   *)
(* circle of that radius or the box.                                       *)
WithinShape(sh, p) ==
    IF sh.circle THEN Distance(sh.at, p) <= sh.w^2
    ELSE Abs1(p.lat - sh.at.lat) <= sh.h /\ LonGap(p.lon, sh.at.lon) <= sh.w

(* `estimate_steps_by_radius`, the radius squared.                         *)
EstimateSteps(r2, lat) ==
    LET half == (World \div 2)^2
        doublings == CHOOSE n \in 0..(2 * GeoStepMax) :
                        r2 * 4^n >= half /\ \A m \in 0..(n - 1) : r2 * 4^m < half
        step == doublings - 1 - Cardinality({b \in PolarBands : lat \in b})
    IN  IF r2 = 0 THEN GeoStepMax
        ELSE IF step < 1 THEN 1 ELSE Least(step, GeoStepMax)

(* `calculate_areas_by_shape`: the cell of the centre and its neighbours   *)
(* at a precision that covers the bounding box, without the neighbours on  *)
(* a side the box does not reach.  In the order they are searched.         *)
Around == <<<<0, 0>>, <<0, 1>>, <<0, -1>>, <<1, 0>>, <<-1, 0>>, <<1, 1>>, <<-1, 1>>, <<1, -1>>, <<-1, -1>>>>
BoundingBox(sh) ==
    LET h == IF sh.circle THEN sh.w ELSE sh.h
    IN  [lonMin |-> sh.at.lon - sh.w, lonMax |-> sh.at.lon + sh.w, latMin |-> sh.at.lat - h, latMax |-> sh.at.lat + h]
Near(sh, steps, dx, dy) == Moved(Encode(sh.at.lon, sh.at.lat, steps), dx, dy)
StepsCovering(sh, box, first) ==
    LET area(dx, dy) == AreaOf(Near(sh, first, dx, dy))
        short == \/ area(0, 1).latMax < box.latMax
                 \/ area(0, -1).latMin > box.latMin
                 \/ area(1, 0).lonMax < box.lonMax
                 \/ area(-1, 0).lonMin > box.lonMin
    IN  IF first > 1 /\ short THEN first - 1 ELSE first
Reached(d, steps, area, box) ==
    ~ /\ steps >= 2
      /\ \/ d[2] = -1 /\ area.latMin < box.latMin
         \/ d[2] = 1 /\ area.latMax > box.latMax
         \/ d[1] = -1 /\ area.lonMin < box.lonMin
         \/ d[1] = 1 /\ area.lonMax > box.lonMax
AreasByShape(sh) ==
    LET r2 == IF sh.circle THEN sh.w^2 ELSE sh.w^2 + sh.h^2
    IN  With(BoundingBox(sh), LAMBDA box :
        With(StepsCovering(sh, box, EstimateSteps(r2, sh.at.lat)), LAMBDA steps :
        With(AreaOf(Near(sh, steps, 0, 0)), LAMBDA area :
        With(SelectSeq(Around, LAMBDA d : Reached(d, steps, area, box)), LAMBDA kept :
            [i \in DOMAIN kept |-> Near(sh, steps, kept[i][1], kept[i][2])]))))

(* `scores_of_geo_hash_box`: the scores of the points in a cell.           *)
InArea(h, score) ==
    LET bits == Interleaved(h.y, h.x)
        unit == 4^(GeoStepMax - h.step)
    IN  score >= bits * unit /\ score < (bits + 1) * unit

(* The candidates, area by area and by score within one; an area equal to  *)
(* the one before it is skipped.                                           *)
Candidates(z, sh) ==
    LET hits(area) == SelectSeq(ZOrder(z), LAMBDA m : InArea(area, z[m]) /\ WithinShape(sh, DecodeScore(z[m])))
    IN  With(AreasByShape(sh), LAMBDA areas :
            FoldLeft(LAMBDA acc, i : IF i = 1 \/ areas[i] # areas[i - 1] THEN acc \o hits(areas[i]) ELSE acc,
                     <<>>, [i \in DOMAIN areas |-> i]))

(* COUNT n ANY stops at the first n; `sort_if_needed` sorts by distance,   *)
(* keeping the order of equals, and cuts to n.  c.count = 0 is no COUNT.   *)
AtMost(s, n) == SubSeq(s, 1, Least(n, Len(s)))
ByDistance(taken, dist, desc) ==
    LET before(i, j) == IF dist[i] = dist[j] THEN i < j ELSE desc # (dist[i] < dist[j])
    IN  With(SetToSortSeq(DOMAIN taken, before), LAMBDA order : [i \in DOMAIN taken |-> taken[order[i]]])
Found(z, c, sh) ==
    LET sort(s) == IF c.sort = "none" THEN s
                   ELSE ByDistance(s, [i \in DOMAIN s |-> Distance(sh.at, DecodeScore(z[s[i]]))], c.sort = "DESC")
        cut(s) == IF c.count > 0 THEN AtMost(s, c.count) ELSE s
        taken(s) == IF c.any THEN cut(s) ELSE s
    IN  cut(sort(taken(Candidates(z, sh))))

(***************************************************************************)
(* GEOADD: c.pts are the [lon, lat, m]; one invalid pair fails the command *)
(* before anything is looked up.                                           *)
(***************************************************************************)
ExecGeoAdd(db, c, now) ==
    LET d == Find(db, c.k, now)
        e == EnsureZSet(d, c.k, now)
        z == Scores(d, c.k)
        add(r, p) == LET s == ScoreOfPoint(p.lon, p.lat)
                         old == p.m \in DOMAIN r.z
                     IN  IF IF old THEN c.nx ELSE c.xx THEN r
                         ELSE [z |-> ZPut(r.z, p.m, s), added |-> r.added + (IF old THEN 0 ELSE 1),
                               changed |-> r.changed + (IF old /\ r.z[p.m] = s THEN 0 ELSE 1)]
        r == FoldLeft(add, [z |-> z, added |-> 0, changed |-> 0], c.pts)
    IN  IF (c.nx /\ c.xx) \/ \E i \in DOMAIN c.pts : c.pts[i].lon \notin Coord \/ c.pts[i].lat \notin Coord
        THEN Err(db)
        ELSE IF WrongZSet(d, c.k) THEN Err(d)
        ELSE Ok(PutZSet(e, c.k, r.z), Num(IF c.ch THEN r.changed ELSE r.added))

(* GEOPOS and GEOHASH answer for each member, GEODIST for a pair.          *)
PointOf(z, m) == IF m \in DOMAIN z THEN <<"pos", DecodeScore(z[m])>> ELSE Nil
ExecGeoPos(db, c, now) ==
    LET f(z) == Arr([i \in DOMAIN c.ms |-> PointOf(z, c.ms[i])])
    IN  ReadZSet(db, c.k, f(<<>>), f, now)
ExecGeoDist(db, c, now) ==
    LET f(z) == IF Range(c.ms) \subseteq DOMAIN z
                THEN Num(Distance(DecodeScore(z[c.ms[1]]), DecodeScore(z[c.ms[2]]))) ELSE Nil
    IN  ReadZSet(db, c.k, Nil, f, now)

(***************************************************************************)
(* GEOSEARCH, GEOSEARCHSTORE, GEORADIUS and GEORADIUSBYMEMBER: c.si is the *)
(* position of the source among the keys, c.di that of the destination, 0  *)
(* for none.  The centre is c.at, or the member c.from.  The destination   *)
(* is written on this shard when it owns it, else the store is deferred.   *)
(***************************************************************************)
StoreFound(d, c, owned, z, n) ==
    LET dest == c.ks[c.di]
    IN  IF c.di \notin owned
        THEN Deferred(d, <<Store(dest, ZSetOrAbsent(z), NoExpiry, FALSE)>>, Num(n))
        ELSE Ok(IF n = 0 THEN RemoveKey(d, dest) ELSE Insert(d, dest, ZSetVal(z)), Num(n))
ExecGeoSearch(db, c, owned, now) ==
    LET src == c.ks[c.si]
        nothing(d) == IF c.di = 0 THEN Ok(d, Arr(<<>>)) ELSE StoreFound(d, c, owned, <<>>, 0)
        centred(z) == IF c.byMember THEN [c.shape EXCEPT !.at = DecodeScore(z[c.from])] ELSE c.shape
        scored(z, at, m) == IF c.storeDist THEN Distance(at, DecodeScore(z[m])) ELSE z[m]
    IN  IF c.si \notin owned THEN Ok(db, Arr(<<>>))
        ELSE IF c.count < 0 THEN Err(db)
        ELSE With(Find(db, src, now), LAMBDA d :
             IF WrongZSet(d, src) THEN Err(d)
             ELSE IF ~Holds(d, src) THEN nothing(d)
             ELSE IF c.byMember /\ c.from \notin DOMAIN Scores(d, src) THEN Err(d)
             ELSE With(Scores(d, src), LAMBDA z : With(centred(z), LAMBDA sh : With(Found(z, c, sh), LAMBDA out :
                  IF c.di = 0 THEN Ok(d, Arr(out))
                  ELSE StoreFound(d, c, owned, [m \in Range(out) |-> scored(z, sh.at, m)], Len(out))))))
MergeGeo(parts, c) ==
    LET src == PartOf(parts, c.si)
    IN  IF AnyErr(parts) THEN MergedErr ELSE MergedStore(src.stores, src.reply)

GeoReads == {"GEOPOS", "GEODIST", "GEOSEARCH"}
ExecGeo(db, c, owned, now) ==
    CASE c.cmd = "GEOADD" -> ExecGeoAdd(db, c, now)
      [] c.cmd = "GEOPOS" -> ExecGeoPos(db, c, now)
      [] c.cmd = "GEODIST" -> ExecGeoDist(db, c, now)
      [] c.cmd \in {"GEOSEARCH", "GEOSEARCHSTORE"} -> ExecGeoSearch(db, c, owned, now)
=============================================================================
