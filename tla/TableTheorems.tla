---------------------------- MODULE TableTheorems ----------------------------
(***************************************************************************)
(* What the operators of Tables do to a table: the facts the proofs about  *)
(* the components rest on.                                                 *)
(***************************************************************************)
EXTENDS Tables, FiniteSetTheorems, TLAPS

\* Which rows there are after an insert or update, and what they hold.
LEMMA PutRows ==
    ASSUME NEW table, NEW id, NEW row
    PROVE  /\ DOMAIN Put(table, id, row) = DOMAIN table \cup {id}
           /\ Put(table, id, row)[id] = row
           /\ \A k \in DOMAIN table : k # id => Put(table, id, row)[k] = table[k]
    BY DEF Put

\* Inserting or replacing a row of the right shape leaves a table.
LEMMA PutTable ==
    ASSUME NEW table, NEW S, NEW R, IsTable(table, S, R),
           NEW id \in S, NEW row \in R
    PROVE  IsTable(Put(table, id, row), S, R)
<1> DEFINE new == Put(table, id, row)
<1>1. DOMAIN new = DOMAIN table \cup {id}
    BY DEF Put
<1>2. ASSUME NEW k \in DOMAIN new PROVE new[k] \in R
    BY <1>2 DEF Put, IsTable
<1>3. new = [k \in DOMAIN new |-> new[k]]
    BY DEF Put
<1> QED
    BY <1>1, <1>2, <1>3 DEF IsTable

\* Deleting a row leaves the other rows as they were, and a table a table.
LEMMA WithoutRows ==
    ASSUME NEW table, NEW id
    PROVE  /\ DOMAIN Without(table, id) = DOMAIN table \ {id}
           /\ \A k \in DOMAIN table \ {id} : Without(table, id)[k] = table[k]
           /\ Without(table, id) = [k \in DOMAIN table \ {id} |-> Without(table, id)[k]]
    BY DEF Without, Restrict

LEMMA WithoutTable ==
    ASSUME NEW table, NEW S, NEW R, IsTable(table, S, R), NEW id
    PROVE  IsTable(Without(table, id), S, R)
<1> DEFINE new == Without(table, id)
<1>1. /\ DOMAIN new = DOMAIN table \ {id}
      /\ \A k \in DOMAIN table \ {id} : new[k] = table[k]
      /\ new = [k \in DOMAIN table \ {id} |-> new[k]]
    BY WithoutRows
<1> HIDE DEF new
<1>2. \A k \in DOMAIN new : new[k] \in R
    BY <1>1 DEF IsTable
<1>3. DOMAIN new \subseteq S /\ new \in [DOMAIN new -> R]
    BY <1>1, <1>2 DEF IsTable
<1> QED
    BY <1>3 DEF IsTable, new

\* Keeping some of the rows leaves a table.
LEMMA RestrictTable ==
    ASSUME NEW table, NEW S, NEW R, IsTable(table, S, R), NEW ids \in SUBSET DOMAIN table
    PROVE  /\ IsTable(Restrict(table, ids), S, R)
           /\ DOMAIN Restrict(table, ids) = ids
           /\ \A k \in ids : Restrict(table, ids)[k] = table[k]
<1> DEFINE new == Restrict(table, ids)
<1>1. /\ DOMAIN new = ids
      /\ \A k \in ids : new[k] = table[k]
      /\ new = [k \in ids |-> new[k]]
    BY DEF Restrict
<1> HIDE DEF new
<1>2. \A k \in DOMAIN new : new[k] \in R
    BY <1>1 DEF IsTable
<1>3. DOMAIN new \subseteq S /\ new \in [DOMAIN new -> R]
    BY <1>1, <1>2 DEF IsTable
<1> QED
    BY <1>1, <1>3 DEF IsTable, new

\* The empty table is a table of anything.
LEMMA EmptyIsTable ==
    ASSUME NEW S, NEW R
    PROVE  IsTable(EmptyTable, S, R) /\ DOMAIN EmptyTable = {}
    BY DEF IsTable, EmptyTable

\* A table that is finite stays finite when a row is inserted or deleted.
LEMMA FiniteTables ==
    ASSUME NEW table, NEW id, NEW row, IsFiniteSet(DOMAIN table)
    PROVE  /\ IsFiniteSet(DOMAIN Put(table, id, row))
           /\ IsFiniteSet(DOMAIN Without(table, id))
<1>1. IsFiniteSet(DOMAIN table \cup {id}) /\ IsFiniteSet(DOMAIN table \ {id})
    BY FS_AddElement, FS_RemoveElement
<1>2. DOMAIN Put(table, id, row) = DOMAIN table \cup {id}
    BY PutRows
<1>3. DOMAIN Without(table, id) = DOMAIN table \ {id}
    BY WithoutRows
<1> QED
    BY <1>1, <1>2, <1>3

==============================================================================
