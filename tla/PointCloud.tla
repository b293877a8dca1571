----------------------------- MODULE PointCloud -----------------------------
(***************************************************************************)
(* The two tools that read a CSV log of points: pointcloud_player.py shows *)
(* them on a topic, csv_to_pcd.py writes them to a file.  Each has a loop  *)
(* of its own over the rows.  A number is in millionths, the precision the *)
(* file is written with; Speck is a number too small to change a sum.      *)
(***************************************************************************)
EXTENDS Lists

CONSTANTS NaN, Infinity, Speck,
          Unreadable       \* a field that is missing or no number

NotFinite == {NaN, Infinity}
Field == Int \cup NotFinite \cup {Speck, Unreadable}
Row == [x : Field, y : Field, z : Field, reflectivity : Field]

(* float + float; the offset is a finite number.                            *)
Raised(z, offset) ==
    IF z \in NotFinite THEN z
    ELSE IF z = Speck THEN (IF offset = 0 THEN z ELSE offset)
    ELSE z + offset

Readable(row) == Unreadable \notin {row.x, row.y, row.z, row.reflectivity}
PointOf(row, offset) ==
    [x |-> row.x, y |-> row.y, z |-> Raised(row.z, offset), intensity |-> row.reflectivity]

Finite(point) == {point.x, point.y, point.z, point.intensity} \cap NotFinite = {}
Origin(point, offset) == point.x = 0 /\ point.y = 0 /\ point.z = offset

(* The three continue statements of the player's loop.                      *)
PlayerKeeps(row, drop, offset) ==
    /\ Readable(row)
    /\ Finite(PointOf(row, offset))
    /\ drop => ~Origin(PointOf(row, offset), offset)

(* Those of the converter's, which are written out there once more.         *)
ConverterKeeps(row, drop, offset) ==
    LET point == PointOf(row, offset)
    IN  Readable(row) /\ Finite(point) /\ ~(drop /\ Origin(point, offset))

(* A loop over the rows that keeps those at the positions in kept; full[n]  *)
(* ends it after the n-th point.                                            *)
Loop(rows, kept, offset, full) ==
    LET taken[i \in 0..Len(rows)] ==
            LET points == taken[i - 1] IN
            IF i = 0 THEN <<>>
            ELSE IF i \in kept /\ ~(points # <<>> /\ full[Len(points)])
                 THEN Append(points, PointOf(rows[i], offset)) ELSE points
    IN  taken[Len(rows)]

(* PointCloudPlayer._load_points                                            *)
LoadPoints(rows, limit, drop, offset) ==
    Loop(rows, {i \in 1..Len(rows) : PlayerKeeps(rows[i], drop, offset)}, offset,
         [n \in 1..Len(rows) |-> n >= limit])

(* Faulty: one point too many.                                              *)
FaultyIterPoints(rows, limit, drop, offset) ==
    Loop(rows, {i \in 1..Len(rows) : ConverterKeeps(rows[i], drop, offset)}, offset,
         [n \in 1..Len(rows) |-> limit > 0 /\ n > limit])

(* iter_points: a limit that is not positive is none.                       *)
IterPoints(rows, limit, drop, offset) ==
    Loop(rows, {i \in 1..Len(rows) : ConverterKeeps(rows[i], drop, offset)}, offset,
         [n \in 1..Len(rows) |-> limit > 0 /\ n >= limit])

(* The player refuses to start without a point, the converter does not.     *)
PlayerStarts(rows, limit, drop, offset) == LoadPoints(rows, limit, drop, offset) # <<>>

(* write_pcd: two fields of the header announce the number of lines.        *)
WritePcd(points) == [width |-> Len(points), points |-> Len(points), lines |-> points]

(* One and the same log shows and converts alike: the file holds what the   *)
(* player shows, and no more unless the limit was switched off, which the   *)
(* player takes for a limit of one; and the player starts whenever there is *)
(* something to show.  Each loop takes the first rows that can be kept.     *)
ToolsAgree(rows, limit, drop, offset) ==
    LET shown == LoadPoints(rows, limit, drop, offset)
        file == WritePcd(IterPoints(rows, limit, drop, offset))
        kept == Filtered(rows, {i \in 1..Len(rows) : PlayerKeeps(rows[i], drop, offset)})
        first(n) == [i \in 1..(IF n < Len(kept) THEN n ELSE Len(kept)) |->
                        PointOf(kept[i], offset)]
    IN  /\ shown = first(IF limit > 0 THEN limit ELSE 1)
        /\ file.lines = (IF limit > 0 THEN shown ELSE first(Len(kept)))
        /\ file.width = Len(file.lines)
        /\ PlayerStarts(rows, limit, drop, offset) <=> kept # <<>>
=============================================================================
