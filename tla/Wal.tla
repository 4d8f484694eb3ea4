---------------------------------- MODULE Wal ----------------------------------
(***************************************************************************)
(* The write-ahead log of src/wal/main.go: a map, and a file to which each   *)
(* Put appends one line before it changes the map.  The process or the       *)
(* machine may die anywhere, and a new instance reads the file.  A line cut  *)
(* by such a death has no end: the next Put goes on in the same line.        *)
(***************************************************************************)
EXTENDS Naturals, Sequences, SequencesExt

CONSTANTS Key,       \* keys, none of which has a blank in it
          Plain,     \* values without blanks
          Blank,     \* values with a blank in the middle, like "Alice Smith"
          None,      \* a key that is not in the map
          MaxPuts,   \* bound on the calls of Put
          MaxDeaths  \* bound on the deaths

Value == Plain \cup Blank

VARIABLES file,   \* what was written, piece by piece
          synced, \* how many pieces a loss of power leaves alone
          store,  \* the map of the instance, or None when there is no instance
          writer, \* the Put that holds the mutex: where it is, its key and value
          puts, deaths,
          acked,  \* ghost: by key, the last Put that returned nil and can be read
          tried   \* ghost: by key, what later Puts have given, or part of it

vars == <<file, synced, store, writer, puts, deaths, acked, tried>>

Empty == [k \in Key |-> None]
Idle == [at |-> "idle", key |-> None, value |-> None]

(* How far the line of a Put got: into the operation, the key or the value,  *)
(* up to the missing newline, or whole.  Close writes an "end".              *)
Cuts == {"op", "key", "value", "unended"}
Cut(v) == [cut |-> v]
Piece(k, v, part) == [key |-> k, value |-> v, part |-> part]
EndsLine(piece) == piece.part \in {"whole", "end"}
Ended(pieces) == pieces = <<>> \/ EndsLine(Last(pieces))

(* Sscanf of a line that holds one piece: PUT, the key and one word; the end *)
(* of the file stands for the newline.                                       *)
Scanned(p) ==
    CASE p.part \in {"op", "key", "end"} -> <<>>
      [] p.part = "value" -> <<p.key, Cut(p.value)>>
      [] p.part \in {"whole", "unended"} ->
            IF p.value \in Blank THEN <<>> ELSE <<p.key, p.value>>

(* A line of several writes is no PUT, a key and one word.                   *)
Alone(pieces, i) == /\ i = 1 \/ EndsLine(pieces[i - 1])
                    /\ i = Len(pieces) \/ EndsLine(pieces[i]) \/ pieces[i + 1].part = "end"

Readable(pieces, i) == Alone(pieces, i) /\ Scanned(pieces[i]) # <<>>

(* Mutant: the scan stops at the first line it cannot read. *)
RecoverToFirstBad(pieces) ==
    FoldLeft(LAMBDA m, i : IF \E j \in 1..i : ~Readable(pieces, j) THEN m
                           ELSE [m EXCEPT ![Scanned(pieces[i])[1]] = Scanned(pieces[i])[2]],
             Empty, [i \in DOMAIN pieces |-> i])

(* recover: lines that cannot be read are skipped, later lines win.          *)
Recover(pieces) ==
    FoldLeft(LAMBDA m, i : IF ~Readable(pieces, i) THEN m
                           ELSE [m EXCEPT ![Scanned(pieces[i])[1]] = Scanned(pieces[i])[2]],
             Empty, [i \in DOMAIN pieces |-> i])

TypeOK == /\ \A i \in DOMAIN file : file[i].part \in Cuts \cup {"whole", "end"}
          /\ synced \in 0..Len(file)
          /\ writer.at \in {"idle", "write", "sync"}
          /\ puts \in 0..MaxPuts /\ deaths \in 0..MaxDeaths
          /\ acked \in [Key -> Plain \cup {None}]

Init == /\ file = <<>> /\ synced = 0
        /\ store = Empty
        /\ writer = Idle
        /\ puts = 0 /\ deaths = 0
        /\ acked = Empty /\ tried = [k \in Key |-> {}]

(* Put *)
Lock(k, v) == /\ store # None /\ writer = Idle /\ puts < MaxPuts
              /\ writer' = [at |-> "write", key |-> k, value |-> v]
              /\ puts' = puts + 1
              /\ tried' = [tried EXCEPT ![k] = @ \cup {v, Cut(v)}]
              /\ UNCHANGED <<file, synced, store, deaths, acked>>

Write == /\ writer.at = "write"
         /\ file' = Append(file, Piece(writer.key, writer.value, "whole"))
         /\ writer' = [writer EXCEPT !.at = "sync"]
         /\ UNCHANGED <<synced, store, puts, deaths, acked, tried>>

(* Put returns the error of a write that got nowhere or only so far.         *)
WriteFails == /\ writer.at = "write"
              /\ \/ UNCHANGED file
                 \/ \E part \in Cuts : file' = Append(file, Piece(writer.key, writer.value, part))
              /\ writer' = Idle
              /\ UNCHANGED <<synced, store, puts, deaths, acked, tried>>

SyncFails == /\ writer.at = "sync"
             /\ writer' = Idle
             /\ UNCHANGED <<file, synced, store, puts, deaths, acked, tried>>

(* Put returns nil, whether or not recover can read the line it has made: it  *)
(* cannot if the line goes on from a cut one or the value has a blank.        *)
Sync == /\ writer.at = "sync"
        /\ writer' = Idle
        /\ synced' = Len(file)
        /\ store' = [store EXCEPT ![writer.key] = writer.value]
        /\ IF Readable(file, Len(file))
           THEN /\ acked' = [acked EXCEPT ![writer.key] = writer.value]
                /\ tried' = [tried EXCEPT ![writer.key] = {}]
           ELSE UNCHANGED <<acked, tried>>
        /\ UNCHANGED <<file, puts, deaths>>

(* Close ends a line that was cut; elsewhere its empty line means nothing.   *)
Close == /\ store # None /\ writer = Idle
         /\ file' = IF Ended(file) THEN file ELSE Append(file, Piece(None, None, "end"))
         /\ synced' = Len(file')
         /\ store' = None
         /\ UNCHANGED <<writer, puts, deaths, acked, tried>>

(* Whatever was not synchronised may be gone, from some byte of it on.       *)
Die == /\ store # None /\ deaths < MaxDeaths
       /\ deaths' = deaths + 1
       /\ store' = None /\ writer' = Idle
       /\ LET written == IF writer.at = "write"
                         THEN Append(file, Piece(writer.key, writer.value, "whole")) ELSE file
          IN  \E n \in synced..Len(written) :
                \/ file' = SubSeq(written, 1, n)
                \/ /\ n < Len(written) /\ written[n + 1].part = "whole"
                   /\ \E part \in Cuts :
                        file' = Append(SubSeq(written, 1, n), [written[n + 1] EXCEPT !.part = part])
       /\ synced' = Len(file')
       /\ UNCHANGED <<puts, acked, tried>>

NewWAL == /\ store = None
          /\ store' = Recover(file)
          /\ UNCHANGED <<file, synced, writer, puts, deaths, acked, tried>>

Next == \/ \E k \in Key, v \in Value : Lock(k, v)
        \/ Write \/ WriteFails \/ Sync \/ SyncFails
        \/ Close \/ Die \/ NewWAL

Spec == Init /\ [][Next]_vars

-------------------------------------------------------------------------------
(* Of every key the file gives back the last value whose Put returned nil and *)
(* made a line of its own with one word, or what a later Put of that key gave,*)
(* through any deaths, failed writes and merged lines of whatever key before   *)
(* and after it.  The line of a Put that returned nil may be none of those:   *)
(* then its value is lost and the older one comes back (lines 46-60, 82-95).  *)
RecoveredIsAcknowledged ==
    \A k \in Key : Recover(file)[k] \in {acked[k]} \cup tried[k]

(* "新实例会自动恢复数据" (line 143): a new instance recovers from the file what  *)
(* the map of the one before held; more only of a Put that did not return.    *)
NewInstanceRecovers ==
    store # None /\ writer = Idle =>
        \A k \in Key : Recover(file)[k] \in {store[k]} \cup tried[k]
================================================================================
