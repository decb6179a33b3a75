------------------------------ MODULE RtpsLive ------------------------------
(* Liveness of the reliable protocol of RtpsReliable: readers that match    *)
(* and stay matched, a writer that writes and stops, a heartbeat timer that *)
(* keeps firing, and a network that loses messages but not all of them.     *)
EXTENDS RtpsReliable

(* Instances are interchangeable: the first change names one of them. *)
FirstInstance == CHOOSE i \in Instances : TRUE

LiveNext ==
    \/ \E ih \in Instances : (nextSn = 1 => ih = FirstInstance) /\ Write(ih)
    \/ SendHeartbeat(FALSE, FALSE)
    \/ \E r \in Readers : AddMatchedReader(r)
    \/ \E r \in Readers : AddMatchedWriter(r)
    \/ \E m \in net : HandleAckNack(m)
    \/ \E m \in net : HandleData(m)
    \/ \E m \in net : HandleGap(m)
    \/ \E m \in net : HandleHeartbeat(m)

(* Discovery completes on both sides; onHeartbeatTimer re-arms itself while  *)
(* a reliable reader is matched; and a link on which messages of a kind that *)
(* would be accepted are sent again and again delivers one.                  *)
Fairness ==
    /\ WF_vars(SendHeartbeat(FALSE, FALSE))
    /\ \A r \in Reliable :
           /\ WF_vars(AddMatchedReader(r)) /\ WF_vars(AddMatchedWriter(r))
           /\ SF_vars(\E m \in net : m.type = "HB" /\ m.reader = r
                                     /\ Newer(m.count, wp[r].lastHb) /\ HandleHeartbeat(m))
           /\ SF_vars(\E m \in net : m.type = "ACKNACK" /\ m.reader = r
                                     /\ ~AckIsStale(rp[r], m) /\ HandleAckNack(m))
           /\ SF_vars(\E m \in net : m.type = "GAP" /\ m.reader = r /\ HandleGap(m))
           /\ \A s \in SN : SF_vars(\E m \in net : m = Data(r, s) /\ HandleData(m))

LiveSpec == Init /\ [][LiveNext]_vars /\ Fairness

(* All that was written comes to be acknowledged, so wait_for_acknowledgments *)
(* (waitAllAcked) ends, though messages are lost: the periodic HEARTBEAT,     *)
(* which suppress_live_data does not cap, draws the ACKNACKs that draw the    *)
(* repairs.  By AckedIsPassed the reader then has it, or knows it is gone.    *)
EventuallyAcked == \A r \in Reliable : rp[r].matched ~> rp[r].acked = nextSn - 1

(* The readiness handshake ends on both sides (on_reliable_reader_ready,    *)
(* on_reliable_writer_ready).                                               *)
EventuallyReady == \A r \in Reliable : <>(rp[r].ready /\ wp[r].ready)
=============================================================================
