------------------------------ MODULE Timezone ------------------------------
(***************************************************************************)
(* flute::Timezone (common/Timezone.h, common/Timezone.cc): the table of   *)
(* transitions read from a zoneinfo file, and the conversions between      *)
(* seconds since the epoch and local broken-down time that search it.      *)
(*                                                                         *)
(* A file is what read_timezone_file sees of it: whether it opens and      *)
(* starts with "TZif", and the lists it holds; `cut` is the number of      *)
(* items (header, transition times, transition indices, types) that can be *)
(* read before the file ends and File throws.  gmtime_r and timegm do what *)
(* Timezone's own to_utc_time and from_utc_time do.                        *)
(***************************************************************************)
EXTENDS Date, Sequences

CONSTANTS
    ZoneFiles,   \* the files a program may open, complete
    FixedZones,  \* the offsets of Timezone(eastOfUtc, name)
    Step,        \* the walk through time advances by this many seconds
    MaxSteps     \* bound: the walk starts Step * MaxSteps before the epoch
                 \*        and ends as far behind it

VARIABLES
    data,        \* TimeData: transitions and local time types
    now          \* the instant that is being converted

zoneVars == <<data, now>>

Localtime(offset, dst) == [gmt_offset |-> offset, is_dst |-> dst]
Transition(t, l, idx) == [gmttime |-> t, localtime |-> l, idx |-> idx]

EmptyData == [transitions |-> <<>>, localtimes |-> <<>>]

-----------------------------------------------------------------------------
(* read_timezone_file                                                      *)

\* Items in the order of the file: one for the header, then each time, each
\* index, each type; the names come last.
ItemsBefore(f, section) ==
    CASE section = "types"       -> 1 + 2 * Len(f.trans)
      [] section = "transitions" -> 1 + 2 * Len(f.trans) + Len(f.types)

TransitionsOf(f) ==
    [i \in 1 .. Len(f.trans) |->
        Transition(f.trans[i], f.trans[i] + f.types[f.idx[i]].gmt_offset,
                   f.idx[i])]

\* Mutant: the transitions are stored as soon as their indices are read.
TransitionsBeforeTypes(f, cut) ==
    LET typesRead == cut - ItemsBefore(f, "types")
    IN  IF ~f.tzif THEN EmptyData
        ELSE [transitions |-> IF typesRead >= 0 THEN TransitionsOf(f) ELSE <<>>,
              localtimes  |-> IF typesRead <= 0 THEN <<>>
                              ELSE SubSeq(f.types, 1, IF typesRead < Len(f.types)
                                            THEN typesRead ELSE Len(f.types))]

\* Types are pushed while they are read; transitions only after all of them.
\* Every failure is caught, and the caller is told the file was read.
read_timezone_file(f, cut) ==
    LET typesRead == cut - ItemsBefore(f, "types")
    IN  IF ~f.tzif \/ typesRead <= 0 THEN EmptyData
        ELSE IF cut < ItemsBefore(f, "transitions")
          THEN [EmptyData EXCEPT !.localtimes = SubSeq(f.types, 1, typesRead)]
          ELSE [transitions |-> TransitionsOf(f), localtimes |-> f.types]

-----------------------------------------------------------------------------
(* find_local_time and the conversions                                     *)

TimeOf(tr, gmt) == IF gmt THEN tr.gmttime ELSE tr.localtime

\* std::lower_bound: the first transition not before t; Len + 1 is end().
lower_bound(trs, t, gmt) ==
    CHOOSE i \in 1 .. Len(trs) + 1 :
        /\ \A j \in 1 .. i - 1 : TimeOf(trs[j], gmt) < t
        /\ i <= Len(trs) => TimeOf(trs[i], gmt) >= t

\* Mutant: an instant equal to a transition still belongs to the one before.
ForgetsEqual(d, t, gmt) ==
    IF d.transitions = <<>> \/ t < TimeOf(d.transitions[1], gmt)
      THEN d.localtimes[1]
    ELSE LET i == lower_bound(d.transitions, t, gmt)
         IN  IF i = 1 THEN d.localtimes[1]
             ELSE d.localtimes[d.transitions[i - 1].idx]

find_local_time(d, t, gmt) ==
    IF d.transitions = <<>> \/ t < TimeOf(d.transitions[1], gmt)
      THEN d.localtimes[1]
    ELSE LET i == lower_bound(d.transitions, t, gmt)
             last == IF i > Len(d.transitions) THEN Len(d.transitions)
                     ELSE IF TimeOf(d.transitions[i], gmt) = t THEN i
                     ELSE i - 1
         IN  d.localtimes[d.transitions[last].idx]

to_local_time(d, t) ==
    LET local == find_local_time(d, t, TRUE)
    IN  [tm |-> to_utc_time(t + local.gmt_offset),
         isdst |-> local.is_dst, gmtoff |-> local.gmt_offset]

\* Mutant: the repeated hour is always the second one.
NoHack(d, lt) ==
    LET seconds == from_utc_time(lt.tm)
    IN  seconds - find_local_time(d, seconds, FALSE).gmt_offset

from_local_time(d, lt) ==
    LET seconds == from_utc_time(lt.tm)
        local == find_local_time(d, seconds, FALSE)
        tryTm == to_local_time(d, seconds - local.gmt_offset)
        again == /\ lt.isdst /\ ~tryTm.isdst
                 /\ tryTm.tm.time.hour = lt.tm.time.hour
                 /\ tryTm.tm.time.min = lt.tm.time.min
    IN  (IF again THEN seconds - 3600 ELSE seconds) - local.gmt_offset

-----------------------------------------------------------------------------
(* A zone is read once and then used for one instant after the other.      *)

ZoneInit ==
    /\ now = - Step * MaxSteps
    /\ \/ \E f \in ZoneFiles : \E cut \in 0 .. ItemsBefore(f, "transitions") :
             data = read_timezone_file(f, cut)
       \/ \E east \in FixedZones :
             data = [EmptyData EXCEPT
                       !.localtimes = <<Localtime(east, FALSE)>>]

ZoneNext ==
    /\ now < Step * MaxSteps
    /\ now' = now + Step
    /\ UNCHANGED data

\* What to_local_time needs: front() of an empty vector is undefined.
Usable == data.localtimes # <<>>

-----------------------------------------------------------------------------
(* Properties                                                              *)

(* The type, with what makes the subscripts of find_local_time defined:    *)
(* however short the file was, every transition kept names a local time    *)
(* type that was kept, so a usable zone never subscripts past its types.   *)
ZoneTypeOK ==
    /\ now \in Int
    /\ \A i \in 1 .. Len(data.transitions) :
          data.transitions[i].idx \in 1 .. Len(data.localtimes)

(* The offset of an instant is that of the last transition not after it,   *)
(* of the first type before all transitions.                               *)
LatestTransitionRules ==
    Usable =>
        LET past == {i \in 1 .. Len(data.transitions) :
                        data.transitions[i].gmttime <= now}
            local == to_local_time(data, now)
        IN  IF past = {} THEN local.gmtoff = data.localtimes[1].gmt_offset
            ELSE \E i \in past :
                    /\ \A j \in past : j <= i
                    /\ local.gmtoff = data.localtimes[
                                          data.transitions[i].idx].gmt_offset

(* A local time converts back to the instant it came from, the repeated    *)
(* hour at the end of daylight saving time included, in every zone whose   *)
(* daylight saving time is one hour (the code assumes 3600 seconds).       *)
LocalTimeRoundTrips ==
    Usable => from_local_time(data, to_local_time(data, now)) = now

(* Conversions in a zone are defined, use the rule in force, and are       *)
(* inverse to each other (read_timezone_file, find_local_time).            *)
ZoneConverts == ZoneTypeOK /\ LatestTransitionRules /\ LocalTimeRoundTrips
=============================================================================
