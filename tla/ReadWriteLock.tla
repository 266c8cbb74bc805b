--------------------------- MODULE ReadWriteLock ----------------------------
(***************************************************************************)
(* What a WriteMutex promises its callers: sections that read may overlap, *)
(* a section that writes overlaps no other.                                *)
(***************************************************************************)
CONSTANTS Reads, Writes

VARIABLES reading, writing     \* the sections that are open

rwVars == <<reading, writing>>

RWInit == reading = {} /\ writing = {}

BeginRead(s) ==
  /\ s \notin reading
  /\ writing = {}
  /\ reading' = reading \union {s}
  /\ UNCHANGED writing

EndRead(s) ==
  /\ s \in reading
  /\ reading' = reading \ {s}
  /\ UNCHANGED writing

BeginWrite(s) ==
  /\ reading = {}
  /\ writing = {}
  /\ writing' = {s}
  /\ UNCHANGED reading

EndWrite(s) ==
  /\ writing = {s}
  /\ writing' = {}
  /\ UNCHANGED reading

RWNext ==
  \/ \E s \in Reads : BeginRead(s) \/ EndRead(s)
  \/ \E s \in Writes : BeginWrite(s) \/ EndWrite(s)

RWSpec == RWInit /\ [][RWNext]_rwVars
=============================================================================
