------------------------------ MODULE MCValues ------------------------------
(* One run for the components that are checked alone: each behaviour is    *)
(* about one of them, chosen at the start, and the others rest.            *)
EXTENDS Buffer, Timezone, ZeroCopier

VARIABLE topic

vars == <<bufferVars, dateVars, zoneVars, copierVars, topic>>

BufferRests ==
    /\ buf = NewBuffer(0) /\ content = <<>>
    /\ header = NoHeader /\ peak = 0

ZoneRests == now = 0 /\ data = EmptyData

CopierRests ==
    /\ g_copy_mode = "kZeroCopy" /\ size = 0
    /\ m_source_available = FALSE /\ m_total_bytes = 0
    /\ m_offset = 0 /\ m_failure_counter = 0 /\ m_started = TRUE
    /\ file_pos = 0 /\ received = <<>>
    /\ short = FALSE /\ aborted = FALSE

Init ==
    /\ topic \in {"buffer", "date", "zone", "copier"}
    /\ IF topic = "buffer" THEN BufferInit ELSE BufferRests
    /\ IF topic = "zone" THEN ZoneInit ELSE ZoneRests
    /\ IF topic = "copier" THEN CopierInit ELSE CopierRests
    /\ DateInit

Next ==
    \/ /\ topic = "buffer" /\ BufferNext
       /\ UNCHANGED <<dateVars, zoneVars, copierVars, topic>>
    \/ /\ topic = "date" /\ DateNext
       /\ UNCHANGED <<bufferVars, zoneVars, copierVars, topic>>
    \/ /\ topic = "zone" /\ ZoneNext
       /\ UNCHANGED <<bufferVars, dateVars, copierVars, topic>>
    \/ /\ topic = "copier" /\ CopierNext
       /\ UNCHANGED <<bufferVars, dateVars, zoneVars, topic>>

Spec == Init /\ [][Next]_vars /\ CopierFairness

(* Zones with one hour of daylight saving time, starting and ending at     *)
(* several distances, and a file that does not start with "TZif".          *)
Types(offset) == <<Localtime(offset, FALSE), Localtime(offset + 3600, TRUE)>>

MCZoneFiles ==
    {[tzif |-> TRUE, trans |-> trans, types |-> Types(offset),
      idx |-> SubSeq(<<2, 1, 2>>, 1, Len(trans))] :
        trans \in {<<>>, <<-7200>>, <<-43200, 5400>>, <<-7200, 0, 36000>>},
        offset \in {-18000, 0, 28800}}
      \cup {[tzif |-> FALSE, trans |-> <<>>, types |-> <<>>, idx |-> <<>>]}
=============================================================================
