------------------------------ MODULE SerialLog -----------------------------
(***************************************************************************)
(* The bounded serial log of a VM and a reader that follows it.  The drain *)
(* (husker-vmm/src/serial_capture.rs) keeps the newest output within a cap *)
(* by replacing the log with a marker, counting the discarded bytes, and a *)
(* tail; a follower (serial_log.rs) tracks its place in the guest's output *)
(* stream rather than a file offset.  A byte is the pair of the boot that  *)
(* wrote it and its place in that boot's output, so two boots never write  *)
(* the same bytes: the 32-byte anchor stands on that.                      *)
(***************************************************************************)
EXTENDS Naturals, Sequences

CONSTANTS
  SerLimit,      \* the cap of the log file
  SerMarkerMax,  \* the longest marker, which a compaction reserves
  SerMarkerLen,  \* the length of the markers written here
  SerChunk,      \* the most one read takes from the pipe
  SerAnchor,     \* how many shown bytes the follower remembers
  SerMaxOutput,  \* bound on one boot's output
  SerMaxBoots    \* bound on the boots explored

\* SerialCapture::new refuses a cap of two markers (2 * 70 bytes) or less, and
\* an anchor has 32 bytes: four of them fit in every cap that is accepted.
ASSUME SerAssumption ==
  /\ SerLimit \in Nat /\ SerMarkerMax \in Nat
  /\ SerLimit > 2 * SerMarkerMax /\ SerMarkerLen \in 1..SerMarkerMax
  /\ SerChunk \in 1..(SerLimit - SerMarkerMax - 1)
  /\ SerAnchor \in Nat \ {0} /\ 4 * SerAnchor <= SerLimit

VARIABLES
  serBoot,      \* the boot whose output is being captured
  serMade,      \* bytes the guest has written in this boot
  serLog,       \* the log file, or its absence
  serLength,    \* the drain's own count of file bytes
  serDiscarded, \* the drain's own count of discarded bytes
  serBroken,    \* a storage error ended the writing; draining goes on
  serReader,    \* the follower
  serShown      \* what its last poll showed after what

serVars == <<serBoot, serMade, serLog, serLength, serDiscarded, serBroken,
             serReader, serShown>>
serWriter == <<serBoot, serMade, serLength, serDiscarded, serBroken>>

SerNoLog == [there |-> FALSE, inode |-> 0, marker |-> 0, discarded |-> 0,
             bytes |-> <<>>]
SerNewLog(inode) == [SerNoLog EXCEPT !.there = TRUE, !.inode = inode]
SerNothing == [notice |-> FALSE, last |-> <<>>, bytes |-> <<>>, restart |-> FALSE,
               kept |-> 0]

SerInit ==
  /\ serBoot = 1 /\ serMade = 0
  /\ serLog = SerNewLog(1)
  /\ serLength = 0 /\ serDiscarded = 0 /\ serBroken = FALSE
  /\ serReader = [on |-> FALSE]
  /\ serShown = SerNothing

SerInodes == 1..2
SerLeast(a, b) == IF a < b THEN a ELSE b
SerTail(s, n) == SubSeq(s, Len(s) - n + 1, Len(s))
SerOutput(n) == [i \in 1..n |-> <<serBoot, serMade + i>>]

-----------------------------------------------------------------------------
(* The drain. *)

\* Mutant: the marker counts the dropped part of this compaction only.
SerCountedOnce(before, dropped) == dropped

\* The marker counts every byte dropped since the boot.
SerCounted(before, dropped) == before + dropped

\* One chunk read from the pipe.  When it does not fit, the log is replaced by
\* the marker and the newest half; the replacement is staged beside the log,
\* synced and renamed, so it is one step for every reader.
SerDrain(n) ==
  /\ ~serBroken /\ serLog.there
  /\ serMade + n <= SerMaxOutput
  /\ LET content == Len(serLog.bytes)
         room == SerLimit - SerMarkerMax
         over == serLength + n > SerLimit
         keep == SerLeast(SerLeast(room - n, SerLimit \div 2), content)
         disc == SerCounted(serDiscarded, content - keep)
     IN /\ serLog' = IF over
                     THEN [there |-> TRUE, inode |-> 3 - serLog.inode,
                           marker |-> SerMarkerLen, discarded |-> disc,
                           bytes |-> SerTail(serLog.bytes, keep) \o SerOutput(n)]
                     ELSE [serLog EXCEPT !.bytes = @ \o SerOutput(n)]
        /\ serDiscarded' = IF over THEN disc ELSE serDiscarded
        /\ serLength' = (IF over THEN SerMarkerLen + keep ELSE serLength) + n
  /\ serMade' = serMade + n
  /\ UNCHANGED <<serBoot, serBroken, serReader, serShown>>

\* A write fails: the log keeps what it had, later output is read and dropped.
SerStorageFails ==
  /\ ~serBroken /\ serLog.there
  /\ serBroken' = TRUE
  /\ UNCHANGED <<serBoot, serMade, serLog, serLength, serDiscarded, serReader, serShown>>

\* The VM is destroyed: log and staging file are removed.
SerRemove ==
  /\ serLog.there
  /\ serLog' = SerNoLog
  /\ UNCHANGED <<serWriter, serReader, serShown>>

\* for_child: a new boot removes the previous log and starts its own, whose
\* inode may be the one just freed.
SerBootAgain(inode) ==
  /\ serBoot < SerMaxBoots
  /\ serBoot' = serBoot + 1
  /\ serMade' = 0 /\ serLength' = 0 /\ serDiscarded' = 0 /\ serBroken' = FALSE
  /\ serLog' = SerNewLog(inode)
  /\ UNCHANGED <<serReader, serShown>>

-----------------------------------------------------------------------------
(* The follower. *)

SerEnd == serLog.discarded + Len(serLog.bytes)
SerRemember(anchor, shown) ==
  LET all == anchor \o shown IN SerTail(all, SerLeast(SerAnchor, Len(all)))

\* SerialFollower::start: show the last `preload` bytes of the file.
SerStart(preload) ==
  /\ ~serReader.on /\ serLog.there
  /\ LET size == serLog.marker + Len(serLog.bytes)
         shown == SerTail(serLog.bytes, SerLeast(SerLeast(preload, size), Len(serLog.bytes)))
     IN /\ serReader' = [on |-> TRUE, position |-> SerEnd, inode |-> serLog.inode,
                         discarded |-> serLog.discarded,
                         anchor |-> SerRemember(<<>>, shown),
                         last |-> IF shown = <<>> THEN <<>> ELSE shown[Len(shown)]]
        /\ serShown' = [SerNothing EXCEPT !.bytes = shown]
  /\ UNCHANGED <<serWriter, serLog>>

\* The two tests of poll for a log that is not the one being followed: its
\* place in the stream, and the bytes just shown.
SerRestarted ==
  LET r == serReader
      back == r.position - serLog.discarded
  IN \/ SerEnd < r.position
     \/ r.inode # serLog.inode /\ serLog.discarded <= r.discarded
     \/ /\ Len(r.anchor) > 0
        /\ r.position >= serLog.discarded + Len(r.anchor)
        /\ SubSeq(serLog.bytes, back - Len(r.anchor) + 1, back) # r.anchor

\* SerialFollower::poll.
SerPoll ==
  /\ serReader.on /\ serLog.there
  /\ LET again == SerRestarted
         from == IF again THEN 0 ELSE serReader.position
         missed == from < serLog.discarded
         place == IF missed THEN serLog.discarded ELSE from
         fresh == SubSeq(serLog.bytes, place - serLog.discarded + 1, Len(serLog.bytes))
         anchor == IF again \/ missed THEN <<>> ELSE serReader.anchor
     IN /\ serReader' = [serReader EXCEPT !.position = place + Len(fresh),
                           !.inode = serLog.inode, !.discarded = serLog.discarded,
                           !.anchor = SerRemember(anchor, fresh),
                           !.last = IF fresh # <<>> THEN fresh[Len(fresh)]
                                   ELSE IF again \/ missed THEN <<>> ELSE @]
        /\ serShown' = [notice |-> again \/ missed, last |-> serReader.last,
                        bytes |-> fresh, restart |-> again,
                        kept |-> place - serLog.discarded]
  /\ UNCHANGED <<serWriter, serLog>>

\* A log that is gone ends the following.
SerPollGone ==
  /\ serReader.on /\ ~serLog.there
  /\ serReader' = [on |-> FALSE]
  /\ serShown' = SerNothing
  /\ UNCHANGED <<serWriter, serLog>>

SerNext ==
  \/ \E n \in 1..SerChunk : SerDrain(n)
  \/ SerStorageFails \/ SerRemove
  \/ \E i \in SerInodes : SerBootAgain(i)
  \/ \E p \in {0, SerAnchor, SerLimit} : SerStart(p)
  \/ SerPoll \/ SerPollGone

-----------------------------------------------------------------------------
\* The file never outgrows its cap, and the marker counts exactly the bytes of
\* this boot that are no longer in it.
SerLogHonest ==
  serLog.there =>
    /\ serLog.marker + Len(serLog.bytes) <= SerLimit
    /\ \A i \in 1..Len(serLog.bytes) :
          serLog.bytes[i] = <<serBoot, serLog.discarded + i>>

\* What a poll shows goes on exactly where the previous one stopped, unless a
\* notice says that output was discarded or the log restarted; and a restart
\* is announced only when another boot wrote the log.  One seam is beyond the
\* code's tests: a new boot whose log starts so close before the follower's
\* place that the remembered bytes no longer fit between the two.
SerNoSilentSeam ==
  LET s == serShown IN
  s.bytes # <<>> /\ s.last # <<>> =>
    /\ ~s.notice => \/ s.bytes[1] = <<s.last[1], s.last[2] + 1>>
                    \/ s.bytes[1][1] # s.last[1] /\ s.kept < SerAnchor
    /\ s.restart => s.bytes[1][1] # s.last[1]

\* The bounded log and its follower account for every byte of guest output:
\* across compactions, storage errors, reboots and reused inodes nothing is
\* lost, repeated or spliced without saying so.
SerFollowsStream == SerLogHonest /\ SerNoSilentSeam
=============================================================================
