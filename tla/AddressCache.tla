------------------------------ MODULE AddressCache ------------------------------
(***************************************************************************)
(* How the client finds the physical address of its HDMI output, in        *)
(* src/host/src/main.c: from the EDID of the connected display (Edid), or  *)
(* from a file that remembers the latest one.  Displays are plugged and    *)
(* become unreadable at any moment; the process may be killed and power    *)
(* may fail.                                                               *)
(***************************************************************************)
EXTENDS Naturals, FiniteSets, Edid

CONSTANTS
  Connectors, Displays, Nothing,
  Base,     \* the base block of each display's EDID, which names the display
  Extension \* its extension blocks

ASSUME CacheAssumption ==
  /\ Nothing \notin Connectors \cup Displays /\ \A d \in Displays : Base[d] # Nothing
  /\ Extension \in [Displays -> Seq(Extensions)]

VARIABLES
  display,  \* what is plugged into each connector, or Nothing
  readable, \* whether its EDID can be read
  file,     \* the cache file, or Nothing: its record, whether the data has reached
            \* the disk, and whether it is whole
  temp,     \* the temporary file
  point,    \* point in resolve_address
  selected, \* the connector of the options, or Nothing
  todo, matches, \* discover_address: connectors to look at, addresses found
  identity, \* display_identity, Nothing for 0
  resolved, \* address, where it is from, and the connector
  stable    \* history: nothing was plugged since the invocation began

environment == <<display, readable>>
files == <<file, temp>>
scan == <<selected, todo, matches>>
cacheVars == <<environment, files, point, scan, identity, resolved, stable>>

NoAnswer == [source |-> "error", address |-> NoAddress, connector |-> Nothing]
Answer(source, a, c) == [source |-> source, address |-> a, connector |-> c]

Connected(c) == display[c] # Nothing
Readable(c) == Connected(c) /\ readable[c]
Offered(c) == IF Readable(c) THEN PhysicalAddress(Extension[display[c]]) ELSE NoAddress

(* display_identity hashes the base block only.                              *)
Identity(c) == IF Readable(c) THEN Base[display[c]] ELSE Nothing

Done(a) == point' = "done" /\ resolved' = a

--------------------------------------------------------------------------------
(* discover_address.                                                         *)

ResolveAddress ==
  /\ point \in {"idle", "done"} /\ point' = "scan"
  /\ \E c \in Connectors \cup {Nothing} :
       selected' = c /\ todo' = IF c = Nothing THEN Connectors ELSE {c}
  /\ matches' = {} /\ identity' = Nothing /\ resolved' = NoAnswer /\ stable' = TRUE
  /\ UNCHANGED <<environment, files>>

LookAt(c) ==
  /\ point = "scan" /\ c \in todo /\ todo' = todo \ {c}
  /\ matches' = IF Offered(c) = NoAddress THEN matches ELSE matches \cup {<<c, Offered(c)>>}
  /\ UNCHANGED <<environment, files, point, selected, identity, resolved, stable>>

Ambiguous == Cardinality(matches) > 1

Discovered ==
  /\ point = "scan" /\ todo = {}
  /\ IF Ambiguous THEN Done(NoAnswer)
     ELSE IF matches = {} THEN point' = "load" /\ UNCHANGED resolved
     ELSE \E m \in matches : point' = "identify" /\ resolved' = Answer("edid", m[2], m[1])
  /\ UNCHANGED <<environment, files, scan, identity, stable>>

Storable(i) == i # Nothing

(* The EDID is read again; without an identity nothing is written. *)
Identify ==
  /\ point = "identify" /\ identity' = Identity(resolved.connector)
  /\ point' = IF Storable(identity') THEN "write" ELSE "done"
  /\ UNCHANGED <<environment, files, scan, resolved, stable>>

--------------------------------------------------------------------------------
(* cache_address: a temporary file, synchronized, takes the place of the old.*)

Record == [address |-> resolved.address, connector |-> resolved.connector, display |-> identity]

WriteTemp ==
  /\ point = "write"
  /\ \/ temp' = [record |-> Record, synced |-> FALSE, whole |-> TRUE] /\ point' = "sync"
     \/ temp' = Nothing /\ point' = "done"
  /\ UNCHANGED <<environment, file, scan, identity, resolved, stable>>

(* Fault: the data may still be on the way when the file is renamed. *)
SyncNothing(t) == t
Synced(t) == [t EXCEPT !.synced = TRUE]

Sync ==
  /\ point = "sync"
  /\ \/ temp' = Synced(temp) /\ point' = "rename"
     \/ temp' = Nothing /\ point' = "done"
  /\ UNCHANGED <<environment, file, scan, identity, resolved, stable>>

Rename ==
  /\ point = "rename" /\ temp' = Nothing /\ point' = "done" /\ file' \in {temp, file}
  /\ UNCHANGED <<environment, scan, identity, resolved, stable>>

--------------------------------------------------------------------------------
(* load_cached_address.                                                      *)

Load ==
  /\ point = "load"
  /\ IF file = Nothing \/ (selected # Nothing /\ file.record.connector # selected)
       THEN Done(NoAnswer) ELSE point' = "others" /\ UNCHANGED resolved
  /\ UNCHANGED <<environment, files, scan, identity, stable>>

(* Fault: other outputs are not looked at. *)
OthersIgnored == FALSE
OtherConnected ==
  selected = Nothing /\ \E c \in Connectors \ {file.record.connector} : Connected(c)

Others ==
  /\ point = "others"
  /\ IF OtherConnected THEN Done(NoAnswer) ELSE point' = "compare" /\ UNCHANGED resolved
  /\ UNCHANGED <<environment, files, scan, identity, stable>>

(* An EDID that cannot be read is not compared. *)
Compare ==
  /\ point = "compare" /\ identity' = Identity(file.record.connector)
  /\ Done(IF identity' \notin {Nothing, file.record.display} THEN NoAnswer
          ELSE Answer("cache", file.record.address, file.record.connector))
  /\ UNCHANGED <<environment, files, scan, stable>>

--------------------------------------------------------------------------------
(* The environment.                                                          *)

Plug ==
  /\ \E c \in Connectors :
       \/ /\ \E d \in Displays \cup {Nothing} : display' = [display EXCEPT ![c] = d]
          /\ UNCHANGED readable
       \/ /\ readable' = [readable EXCEPT ![c] = ~@] /\ UNCHANGED display
  /\ stable' = FALSE /\ UNCHANGED <<files, point, scan, identity, resolved>>

Stops ==
  /\ point' = "idle" /\ resolved' = NoAnswer
  /\ UNCHANGED <<environment, scan, identity, stable>>

(* SIGKILL, or the service's timeout; what was written stays. *)
Kill == point \notin {"idle", "done"} /\ Stops /\ UNCHANGED files

(* A file whose data had not reached the disk is found torn. *)
PowerFails ==
  /\ Stops /\ temp' = Nothing
  /\ file' \in IF file = Nothing \/ file.synced THEN {file}
               ELSE {file, [file EXCEPT !.whole = FALSE]}

CacheInit ==
  /\ display \in [Connectors -> Displays \cup {Nothing}] /\ readable \in [Connectors -> BOOLEAN]
  /\ file = Nothing /\ temp = Nothing /\ point = "idle" /\ selected = Nothing /\ todo = {}
  /\ matches = {} /\ identity = Nothing /\ resolved = NoAnswer /\ stable = TRUE

CacheNext ==
  \/ ResolveAddress \/ Discovered \/ Identify \/ WriteTemp \/ Sync \/ Rename
  \/ Load \/ Others \/ Compare
  \/ Plug \/ Kill \/ PowerFails
  \/ \E c \in Connectors : LookAt(c)

CacheSpec == CacheInit /\ [][CacheNext]_cacheVars

--------------------------------------------------------------------------------
(* Properties.                                                               *)

CachePoints == {"idle", "scan", "identify", "write", "sync", "rename", "load", "others",
                "compare", "done"}

CacheTypeOK ==
  /\ point \in CachePoints /\ selected \in Connectors \cup {Nothing} /\ todo \subseteq Connectors
  /\ resolved.source \in {"error", "edid", "cache"}
  /\ Cardinality(matches) <= Cardinality(Connectors)
  /\ point \in {"write", "sync", "rename"} => resolved.source = "edid" /\ identity # Nothing

(* The cache file is whole whenever the process or the machine stops.        *)
FileIsWhole == file # Nothing => file.whole

(* While nobody touches the displays, an address from an EDID is that of the *)
(* only output that offers one, or of the selected one: the address in its   *)
(* first HDMI block that has a valid one, whatever else the EDID holds.      *)
Bears(c, a) == Readable(c) /\ IsAddressOf(Extension[display[c]], a)
DiscoveredIsUnique ==
  point = "done" /\ stable /\ resolved.source = "edid" =>
    /\ resolved.address # NoAddress /\ Bears(resolved.connector, resolved.address)
    /\ \A c \in Connectors :
         Readable(c) /\ ~Bears(c, NoAddress) => c = resolved.connector \/ selected # Nothing

(* "ambiguous live outputs cannot be replaced silently with cached data"     *)
(* (docs/ARCHITECTURE.md:105): a cached address is used only where no other  *)
(* output is connected, and for no other display, as far as that is readable.*)
CacheIsUnambiguous ==
  point = "done" /\ stable /\ resolved.source = "cache" =>
    /\ selected = Nothing => \A c \in Connectors \ {resolved.connector} : ~Connected(c)
    /\ Identity(resolved.connector) \in {Nothing, file.record.display}
================================================================================
