--------------------------- MODULE Serialization ---------------------------
(***************************************************************************)
(* The message registry of a process: src/src/serialization.rs.            *)
(*                                                                         *)
(* Two process-wide maps under two locks: TYPEID_TO_NAME, from a message   *)
(* type to the name it travels under, and REGISTRY, from a name to the     *)
(* functions that write and read its JSON.  register_remote_message fills  *)
(* them one after the other.  A panic under REGISTRY's lock poisons it,    *)
(* and from then on every lock().unwrap() panics as well.  JSON is         *)
(* abstracted to the type it was written from; Readable says which types   *)
(* can be read back from it.                                               *)
(***************************************************************************)
EXTENDS Naturals

CONSTANTS
  Procs,      \* the processes, each with its own maps
  Types,      \* the message types
  Names,      \* the names they travel under
  NameOf,     \* the name each type is registered with
  Readable,   \* <<w, t>>: what a w was written to parses as a t
  AtStart,    \* the types the main function of a process registers first
  Later,      \* the types it may register while messages flow
  NoType

ASSUME SerializationAssumption ==
  /\ NameOf \in [Types -> Names]
  /\ Readable \subseteq Types \X Types
  /\ AtStart \in [Procs -> SUBSET Types]
  /\ Later \in [Procs -> SUBSET Types]
  /\ \A p \in Procs, t, u \in Types :
        t \in AtStart[p] /\ u \in AtStart[p] /\ NameOf[t] = NameOf[u] => t = u
  /\ NoType \notin Types

VARIABLES
  named,     \* the types in TYPEID_TO_NAME
  entry,     \* REGISTRY: the type whose functions a name has, or NoType
  pending,   \* the types whose registration has filled the first map only
  poisoned   \* REGISTRY's lock is poisoned

serializationVars == <<named, entry, pending, poisoned>>

\* The maps when main has registered its types.
Registered(p) ==
  [n \in Names |-> IF \E t \in AtStart[p] : NameOf[t] = n
                   THEN CHOOSE t \in AtStart[p] : NameOf[t] = n
                   ELSE NoType]

SerializationInit ==
  /\ named    = AtStart
  /\ entry    = [p \in Procs |-> Registered(p)]
  /\ pending  = [p \in Procs |-> {}]
  /\ poisoned = [p \in Procs |-> FALSE]

SerializationTypeOK ==
  /\ named \in [Procs -> SUBSET Types]
  /\ entry \in [Procs -> [Names -> Types \cup {NoType}]]
  /\ pending \in [Procs -> SUBSET Types]
  /\ poisoned \in [Procs -> BOOLEAN]
-----------------------------------------------------------------------------
\* is_message_registered
Known(p, n) == entry[p][n] # NoType

\* Mutant: a poisoned lock is used as if nothing had happened.
MutWritable(p, t) == entry[p][NameOf[t]] = t

\* serialize_message returns: the lock is sound, and the functions under the
\* name of t are those of t.
Writable(p, t) == ~poisoned[p] /\ entry[p][NameOf[t]] = t

\* The deserialize function under the name n accepts what a w was written to.
Parses(p, n, w) == <<w, entry[p][n]>> \in Readable

\* register_remote_message: the first map, under the first lock.
\* Bound: a type is registered once.
RegisterName(p, t) ==
  /\ t \in Later[p] \ named[p]
  /\ named'   = [named EXCEPT ![p] = @ \cup {t}]
  /\ pending' = [pending EXCEPT ![p] = @ \cup {t}]
  /\ UNCHANGED <<entry, poisoned>>

\* The second map; a poisoned lock ends the thread that registers.
RegisterEntry(p, t) ==
  /\ t \in pending[p]
  /\ pending' = [pending EXCEPT ![p] = @ \ {t}]
  /\ entry' = IF poisoned[p] THEN entry ELSE [entry EXCEPT ![p][NameOf[t]] = t]
  /\ UNCHANGED <<named, poisoned>>

\* A panic of a thread of p under REGISTRY's lock.
Poison(p) == poisoned' = [poisoned EXCEPT ![p] = TRUE]

\* A caller of deserialize_message that panics: the lock is poisoned, the name
\* not registered, or the value does not parse.  (One that succeeds changes
\* nothing here.)
FailingRead(p, n, w) ==
  /\ poisoned[p] \/ ~Known(p, n) \/ ~Parses(p, n, w)
  /\ Poison(p)
  /\ UNCHANGED <<named, entry, pending>>

\* The maps and the lock of p when its process starts anew.
ResetRegistry(p) ==
  /\ named'    = [named EXCEPT ![p] = AtStart[p]]
  /\ entry'    = [entry EXCEPT ![p] = Registered(p)]
  /\ pending'  = [pending EXCEPT ![p] = {}]
  /\ poisoned' = [poisoned EXCEPT ![p] = FALSE]
=============================================================================
