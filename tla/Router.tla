------------------------------- MODULE Router -------------------------------
(***************************************************************************)
(* The method registry of a server (urpc_router.cpp) and the threads that  *)
(* publish services in it.  A registration copies the map, adds to the     *)
(* copy and swaps it in, under mu_; a lookup takes the current map.  The   *)
(* generated RegisterService (codegen_emit.cc) registers the methods of a  *)
(* service one by one and returns at the first that is refused.  Paths and *)
(* handlers are those of the typed wrappers, so they are never invalid.    *)
(***************************************************************************)
EXTENDS Naturals, Sequences

CONSTANTS
    Methods,       \* method paths
    Registrants,   \* threads that register, each one service
    Service,       \* per registrant: its methods, in order
    None           \* no handler

ASSUME RouterAssumption ==
    /\ Service \in [Registrants -> Seq(Methods)]
    /\ None \notin Registrants

VARIABLES
    snapshot,   \* snapshot_: per method, whose handler it has
    copied,     \* per registrant: it is between its copy and its swap
    next,       \* per registrant: its copy of the map
    registered, \* per registrant: how many of its methods it has registered
    refused     \* per registrant: a registration was refused

routerVars == <<snapshot, copied, next, registered, refused>>

Maps == [Methods -> Registrants \cup {None}]

\* The types of the state.
RouterTypeOK ==
    /\ snapshot \in Maps /\ next \in [Registrants -> Maps]
    /\ copied \in [Registrants -> BOOLEAN] /\ refused \in [Registrants -> BOOLEAN]
    /\ \A r \in Registrants : registered[r] \in 0..Len(Service[r])

Empty == [m \in Methods |-> None]

RouterInit ==
    /\ snapshot = Empty
    /\ next = [r \in Registrants |-> Empty]
    /\ copied = [r \in Registrants |-> FALSE]
    /\ registered = [r \in Registrants |-> 0]
    /\ refused = [r \in Registrants |-> FALSE]

\* mu_ is held from the copy to the swap.
MuFree == \A r \in Registrants : ~copied[r]

\* RegisterService is not through.
Registering(r) == ~refused[r] /\ registered[r] < Len(Service[r])

\* Bug variant of RegisterCopy: the map is copied outside the lock.
RegisterCopyUnlocked(r) ==
    /\ Registering(r) /\ ~copied[r]
    /\ copied' = [copied EXCEPT ![r] = TRUE]
    /\ next' = [next EXCEPT ![r] = snapshot]
    /\ UNCHANGED <<snapshot, registered, refused>>

\* RegisterUnary and RegisterStream lock mu_ and copy the map.
RegisterCopy(r) ==
    /\ Registering(r) /\ MuFree
    /\ copied' = [copied EXCEPT ![r] = TRUE]
    /\ next' = [next EXCEPT ![r] = snapshot]
    /\ UNCHANGED <<snapshot, registered, refused>>

\* They refuse a path that is taken, or swap in the copy with the new entry.
RegisterSwap(r) ==
    /\ copied[r]
    /\ LET m == Service[r][registered[r] + 1]
       IN  \/ /\ next[r][m] # None
              /\ refused' = [refused EXCEPT ![r] = TRUE]
              /\ UNCHANGED <<snapshot, registered>>
           \/ /\ next[r][m] = None
              /\ snapshot' = [next[r] EXCEPT ![m] = r]
              /\ registered' = [registered EXCEPT ![r] = @ + 1]
              /\ UNCHANGED refused
    /\ copied' = [copied EXCEPT ![r] = FALSE]
    /\ next' = [next EXCEPT ![r] = Empty]

\* Find: the handler of a path in the current map.
Find(m) == snapshot[m]

RouterNext == \E r \in Registrants : RegisterCopy(r) \/ RegisterSwap(r)

-----------------------------------------------------------------------------
\* A registration of m has returned Ok.
Published(m) == \E r \in Registrants : \E k \in 1..registered[r] : Service[r][k] = m
=============================================================================
