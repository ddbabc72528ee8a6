------------------------------ MODULE RibTable ------------------------------
(***************************************************************************)
(* The state the two access paths of a RIB device share: the table and its *)
(* change list (RT/rt_table.c), the vector of updates readers copy from,   *)
(* and the two semaphores (RT/rt_fops.c, rt->sem).  An update stands for   *)
(* the thread that makes it.  A vector is an address: copiers keep the     *)
(* pointer they read while the vector may be freed under them.             *)
(***************************************************************************)
EXTENDS Naturals, Sequences, FiniteSets

CONSTANTS Updates,    \* what writers add to the table
          Copiers,    \* threads that keep a pointer to a vector
          Vectors,    \* addresses the allocator hands out
          Null,       \* the NULL pointer
          MaxFetch,   \* RT_MAX_ENTRIES_FETCH
          EntrySize,  \* sizeof(struct rt_entry)
          UpdateSize  \* sizeof(struct rt_update_t), which has an op code too

ASSUME TableAssumption == /\ Vectors \subseteq Nat /\ Null \notin Vectors
                          /\ MaxFetch \in Nat
                          /\ EntrySize \in Nat \ {0} /\ UpdateSize \in Nat
                          /\ EntrySize <= UpdateSize

VARIABLES table,      \* rt->rt
          changes,    \* rt->rt_change_list, newest first
          vec,        \* rt_update_vector
          vecCount,   \* rt_update_vector_count
          body,       \* what each vector holds
          freed,      \* vectors freed and not handed out again
          hold,       \* the vector each copier is working on
          csSem,      \* rt_serialize_readers_cs_sem
          rtSem       \* rt->sem

listVars == <<table, changes>>
vectorVars == <<vec, vecCount, body, freed, hold>>
semVars == <<csSem, rtSem>>
tableVars == <<listVars, vectorVars, semVars>>

TableInit == /\ table = {}
             /\ changes = <<>>
             /\ vec = Null
             /\ vecCount = 0
             /\ body = [v \in Vectors |-> <<>>]
             /\ freed = {}
             /\ hold = [c \in Copiers |-> Null]
             /\ csSem = 1
             /\ rtSem = 1

TableTypeOK == /\ table \subseteq Updates
               /\ changes \in Seq(Updates)
               /\ vec \in Vectors \cup {Null}
               /\ vecCount \in Nat
               /\ body \in [Vectors -> Seq(Updates)]
               /\ freed \subseteq Vectors
               /\ hold \in [Copiers -> Vectors \cup {Null}]
               /\ csSem \in Nat
               /\ rtSem \in Nat
-----------------------------------------------------------------------------
Least(a, b) == IF a < b THEN a ELSE b

(* A new entry heads the table, and the change list points to it.          *)
add_rt_table_entry_by_val(u) ==
    /\ table' = table \cup {u}
    /\ changes' = <<u>> \o changes

(* Purging frees the entries the change list may still point to.           *)
purge_rt_table ==
    /\ table' = {}
    /\ UNCHANGED changes

rt_empty_change_list ==
    /\ changes' = <<>>
    /\ UNCHANGED table

(* Addresses nobody refers to; which of them kzalloc answers is immaterial.*)
Available == Vectors \ ({vec} \cup {hold[c] : c \in Copiers})

(* First half of rt_get_updated_rt_entries, by c: the new vector replaces  *)
(* the pointer before anything is copied into it.                          *)
AllocateVector(c) ==
    \E v \in Available :
        /\ \A u \in Available : v <= u
        /\ vec' = v
        /\ hold' = [hold EXCEPT ![c] = v]
        /\ body' = [body EXCEPT ![v] = <<>>]
        /\ freed' = freed \ {v}

(* Fault: the oldest change is left out.                                   *)
FillVectorShort(c, n) ==
    /\ vecCount' = n
    /\ body' = [body EXCEPT ![hold[c]] = SubSeq(changes, 1, n - 1)]
    /\ hold' = [hold EXCEPT ![c] = Null]

(* Second half: c copies the entries n changes point to, newest first.     *)
FillVector(c, n) ==
    /\ vecCount' = n
    /\ body' = [body EXCEPT ![hold[c]] = SubSeq(changes, 1, n)]
    /\ hold' = [hold EXCEPT ![c] = Null]

(* kzalloc failed: no vector, and nothing to deliver.                      *)
NoVector == /\ vec' = Null
            /\ vecCount' = 0

(* A caller asks copy_to_user for n times EntrySize bytes of a vector whose*)
(* elements have UpdateSize: so many bytes of element i are among them.    *)
Arrives(i, n) ==
    LET before == (i - 1) * UpdateSize
    IN  IF n * EntrySize <= before THEN 0
                                   ELSE Least(n * EntrySize - before, UpdateSize)

(* What a reader has in its buffer, by element of the vector: the update,  *)
(* and how many bytes of it, from its first, have come.                    *)
Pieces == [update : Updates, bytes : Nat]

(* What c, having asked for n elements, gets of the vector it works on.    *)
Copied(c, n) ==
    IF hold[c] = Null THEN <<>>
    ELSE [i \in 1 .. Least(n, Len(body[hold[c]])) |->
              [update |-> body[hold[c]][i], bytes |-> Arrives(i, n)]]

(* kfree(rt_update_vector) alone: the pointer to the freed vector stays,   *)
(* as in rt_read.                                                          *)
FreeVectorOnly == /\ freed' = freed \cup ({vec} \ {Null})
                  /\ UNCHANGED vec

(* kfree(rt_update_vector); rt_update_vector = NULL, as in the ioctl.      *)
FreeVector == /\ freed' = freed \cup ({vec} \ {Null})
              /\ vec' = Null
-----------------------------------------------------------------------------
(* A buffer holds these updates: each at its place, and whole as far as    *)
(* EntrySize bytes for each of them reach; those after are cut.            *)
Holds(buffer, updates) ==
    /\ Len(buffer) = Len(updates)
    /\ \A i \in 1 .. Len(updates) :
          /\ buffer[i].update = updates[i]
          /\ buffer[i].bytes = UpdateSize <=> i * UpdateSize <= Len(updates) * EntrySize

(* No thread works on a vector that has been freed: the last reader frees  *)
(* it (rt_fops.c:468) while others may still hold the pointer they read    *)
(* (rt_fops.c:457).                                                        *)
VectorLive == \A c \in Copiers : hold[c] \notin freed

(* The change list never points to an entry a purge has freed, which       *)
(* rt_get_updated_rt_entries (rt_table.c:273) would dereference.           *)
NoDanglingChange == \A i \in 1 .. Len(changes) : changes[i] \in table
=============================================================================
