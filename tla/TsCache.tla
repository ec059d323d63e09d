------------------------------- MODULE TsCache -------------------------------
(* The newest HLS segments of a stream: a ring of names over a map of items  *)
(* whose buffers come from a pool, the copies on disk when hls.saveFile is   *)
(* set, and players that fetch the playlist and then a segment of it.        *)
(*                                                                           *)
(* hls/cache.go, hls/registry.go 35-41, httpserver/hls.go 95-133.            *)
EXTENDS Integers, Sequences, FiniteSets

CONSTANTS
  Ring,       \* maxTsCacheNum, 10 in the code
  Players,    \* requests of players, a playlist and then one of its segments
  MaxFlushes, \* bound: segments of the stream
  MaxClock    \* bound: milliseconds that pass

ASSUME TsCacheAssumption ==
  /\ Ring \in Nat \ {0}
  /\ MaxFlushes \in Nat /\ MaxClock \in Nat \ {0}

Slots == 0 .. Ring - 1
Names == 1 .. MaxClock      \* a segment is named after the millisecond it is made in
Arrays == 1 .. MaxFlushes   \* the memory behind the items' buffers
NoItem == [seq |-> 0, array |-> 0]

VARIABLES
  SaveFileFlag, \* hls.saveFile: players are served from the files
  clock,      \* time.Now().UnixMilli()
  flushes,    \* seq of StreamWriter: segments flushed so far
  index, itemList, itemMap,
  pool,       \* arrays of the items in tsItemPool
  bytes,      \* array -> the segment whose bytes it holds
  step, name, \* how far SetItem is, and the name it made
  m3u8File,   \* <<>> when truncated, else <<the names it lists>>
  tsFile,     \* name -> the segment in that file, 0 for none or an empty one
  player,     \* "idle", "listed", "sending", "done"
  listed,     \* the playlist a player has got: names with their segments
  want, has,  \* the entry it asks for; the array it is being sent
  result,     \* the segment whose bytes it received, 0 for an empty body
  reused      \* two segments were given one name (history)

memVars == <<index, itemList, itemMap, pool, bytes>>
writerVars == <<flushes, step, name, reused>>
fileVars == <<m3u8File, tsFile>>
playerVars == <<player, listed, want, has, result>>
cacheVars == <<SaveFileFlag, clock, writerVars, memVars, fileVars, playerVars>>

CacheInit ==
  /\ SaveFileFlag \in BOOLEAN
  /\ clock = 1 /\ flushes = 0
  /\ index = -1 /\ itemList = [i \in Slots |-> 0]
  /\ itemMap = [n \in Names |-> NoItem]
  /\ pool = {} /\ bytes = [a \in Arrays |-> 0]
  /\ step = "idle" /\ name = 0
  /\ m3u8File = <<>> /\ tsFile = [n \in Names |-> 0]
  /\ player = [p \in Players |-> "idle"] /\ listed = [p \in Players |-> <<>>]
  /\ want = [p \in Players |-> NoItem] /\ has = [p \in Players |-> 0]
  /\ result = [p \in Players |-> 0]
  /\ reused = FALSE

Tick ==
  /\ clock < MaxClock
  /\ clock' = clock + 1
  /\ UNCHANGED <<SaveFileFlag, writerVars, memVars, fileVars, playerVars>>

-----------------------------------------------------------------------------
(* SetItem, by the writer's goroutine.                                       *)

\* flush2Cache counts the segment; SetItem names it before it locks.
MakeName ==
  /\ step = "idle" /\ flushes < MaxFlushes
  /\ flushes' = flushes + 1
  /\ name' = clock
  /\ step' = "named"
  /\ UNCHANGED <<SaveFileFlag, clock, reused, memVars, fileVars, playerVars>>

\* t.index = (t.index + 1) % maxTsCacheNum
NextSlot == (index + 1) % Ring

\* Mutant of HeldIn: the slot after it is emptied, one segment too early.
HeldInNext(slot) == {n \in Names : n = itemList[(slot + 1) % Ring] /\ itemMap[n] # NoItem}
\* The name in a slot, if its item is still in the map.
HeldIn(slot) == {n \in Names : n = itemList[slot] /\ itemMap[n] # NoItem}

\* Mutant of Recycled: the buffer goes back and the item keeps it.
RecycledStays(old) == itemMap
\* delete(t.itemMap, k)
Recycled(old) == [n \in Names |-> IF n \in old THEN NoItem ELSE itemMap[n]]

\* The part under the lock: the item the slot held goes back to the pool, and
\* the new one takes a pooled buffer, or a new array, numbered after the
\* segment, if the pool has none or the segment does not fit.
Store ==
  /\ step = "named"
  /\ LET old == HeldIn(NextSlot)
         rest == Recycled(old)
         freed == {itemMap[n].array : n \in old}
     IN  /\ \E a \in pool \cup freed \cup {flushes} :
              /\ pool' = (pool \cup freed) \ {a}
              /\ bytes' = [bytes EXCEPT ![a] = flushes]
              /\ itemMap' = [rest EXCEPT ![name] = [seq |-> flushes, array |-> a]]
         /\ reused' = (reused \/ rest[name] # NoItem \/ name \in old)
  /\ itemList' = [itemList EXCEPT ![NextSlot] = name]
  /\ index' = NextSlot
  /\ step' = IF SaveFileFlag THEN "stored" ELSE "idle"
  /\ UNCHANGED <<SaveFileFlag, clock, flushes, name, fileVars, playerVars>>

\* The names of a list that are still in the map, in the order of the list.
Kept(names) ==
  LET found == {i \in 1 .. Len(names) : itemMap[names[i]] # NoItem}
  IN  [k \in 1 .. Cardinality(found) |->
         names[CHOOSE i \in found : Cardinality({j \in found : j <= i}) = k]]

\* Mutant of OldestFirst: the slots in the order of the array.
AsStored == LET Used(n) == n # 0 IN SelectSeq([i \in 1 .. Ring |-> itemList[i - 1]], Used)
\* The ring from the slot after index on, if it has come round, and up to index.
OldestFirst ==
  (IF itemList[Ring - 1] # 0 THEN [i \in 1 .. Ring - 1 - index |-> itemList[index + i]] ELSE <<>>)
  \o [i \in 1 .. index + 1 |-> itemList[i - 1]]

\* genM3U8PlayList: the segments oldest first, without names that have left the map.
Playlist ==
  LET kept == Kept(OldestFirst)
  IN  [i \in 1 .. Len(kept) |-> [name |-> kept[i], seq |-> itemMap[kept[i]].seq]]

\* saveFileContent: the file is truncated when it is opened and then written.
SaveStep(from, to) ==
  /\ step = from /\ step' = to
  /\ UNCHANGED <<SaveFileFlag, clock, flushes, name, reused, memVars, playerVars>>
OpenM3U8 ==
  SaveStep("stored", "m3u8") /\ m3u8File' = <<>> /\ UNCHANGED tsFile
WriteM3U8 ==
  SaveStep("m3u8", "listed") /\ m3u8File' = Playlist /\ UNCHANGED tsFile
OpenTs ==
  SaveStep("listed", "ts") /\ tsFile' = [tsFile EXCEPT ![name] = 0] /\ UNCHANGED m3u8File
\* Mutant of WriteTs: the file's name is made from the time once more.
WriteTsRenamed ==
  SaveStep("ts", "idle") /\ tsFile' = [tsFile EXCEPT ![clock] = flushes] /\ UNCHANGED m3u8File
WriteTs ==
  SaveStep("ts", "idle") /\ tsFile' = [tsFile EXCEPT ![name] = flushes] /\ UNCHANGED m3u8File

-----------------------------------------------------------------------------
(* handleHlsRequest.                                                         *)

\* .m3u8: GenM3U8PlayList under the read lock, or the file without a lock.
GetPlaylist(p) ==
  /\ player[p] = "idle"
  /\ SaveFileFlag \/ step \in {"idle", "named"}
  /\ listed' = [listed EXCEPT ![p] = IF SaveFileFlag THEN m3u8File ELSE Playlist]
  /\ player' = [player EXCEPT ![p] = "listed"]
  /\ UNCHANGED <<SaveFileFlag, clock, writerVars, memVars, fileVars, want, has, result>>

\* .ts from memory: GetItem returns the buffer's slice and unlocks.
GetItem(p) ==
  /\ player[p] = "listed" /\ ~SaveFileFlag
  /\ \E i \in 1 .. Len(listed[p]) :
       LET entry == listed[p][i] IN
       /\ want' = [want EXCEPT ![p] = entry]
       /\ has' = [has EXCEPT ![p] = itemMap[entry.name].array]
  /\ player' = [player EXCEPT ![p] = "sending"]
  /\ UNCHANGED <<SaveFileFlag, clock, writerVars, memVars, fileVars, listed, result>>

\* The body is written to the connection after the lock is gone.
SendBody(p) ==
  /\ player[p] = "sending"
  /\ result' = [result EXCEPT ![p] = IF has[p] = 0 THEN 0 ELSE bytes[has[p]]]
  /\ player' = [player EXCEPT ![p] = "done"]
  /\ UNCHANGED <<SaveFileFlag, clock, writerVars, memVars, fileVars, listed, want, has>>

\* .ts from disk: GetFileContent.
GetFile(p) ==
  /\ player[p] = "listed" /\ SaveFileFlag
  /\ \E i \in 1 .. Len(listed[p]) :
       LET entry == listed[p][i] IN
       /\ want' = [want EXCEPT ![p] = entry]
       /\ result' = [result EXCEPT ![p] = tsFile[entry.name]]
  /\ player' = [player EXCEPT ![p] = "done"]
  /\ UNCHANGED <<SaveFileFlag, clock, writerVars, memVars, fileVars, listed, has>>

-----------------------------------------------------------------------------
CacheNext ==
  \/ Tick \/ MakeName \/ Store \/ OpenM3U8 \/ WriteM3U8 \/ OpenTs \/ WriteTs
  \/ \E p \in Players : GetPlaylist(p) \/ GetItem(p) \/ SendBody(p) \/ GetFile(p)

CacheSpec == CacheInit /\ [][CacheNext]_cacheVars

-----------------------------------------------------------------------------
(* Properties.                                                               *)

\* No buffer is in two places: an item that is in the map shares its memory
\* with no other item and with nothing in the pool, and holds its own
\* segment, even when two segments were given one name (hls/cache.go 144-155).
BuffersApart ==
  \A m, n \in {x \in Names : itemMap[x] # NoItem} :
    /\ itemMap[m].array \notin pool
    /\ bytes[itemMap[m].array] = itemMap[m].seq
    /\ m # n => itemMap[m].array # itemMap[n].array

\* As long as no two segments are made in the same millisecond, the playlist
\* lists the newest segments, as many as the ring has room for, with
\* consecutive numbers: a player never skips one (hls/cache.go 90-122).
PlaylistConsecutive ==
  step \in {"idle", "named"} /\ ~reused =>
    LET stored == IF step = "idle" THEN flushes ELSE flushes - 1
        oldest == IF stored > Ring THEN stored - Ring ELSE 0
    IN  [i \in 1 .. Len(Playlist) |-> Playlist[i].seq] =
          [i \in 1 .. stored - oldest |-> oldest + i]

\* A body sent from memory is the segment the playlist announced, all of it,
\* unless the ring has come round to its slot by the end of the transfer: then
\* it is empty or, the slice being read after the lock is gone while the
\* buffer is already used again, another segment (hls/cache.go 187-195).
BodyIsTheSegment ==
  \A p \in Players :
    player[p] = "done" /\ ~SaveFileFlag /\ ~reused =>
      result[p] = want[p].seq \/ flushes >= want[p].seq + Ring

\* A player served from disk finds the segment the playlist file announced in
\* its file; only the one the file was last written for may not be there yet,
\* because the playlist is saved first (hls/cache.go 157-166).
FileIsTheSegment ==
  \A p \in Players :
    player[p] = "done" /\ SaveFileFlag /\ ~reused =>
      \/ result[p] = want[p].seq
      \/ result[p] = 0 /\ want[p] = listed[p][Len(listed[p])]
=============================================================================
