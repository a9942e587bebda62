------------------------------ MODULE LuaTables ------------------------------
(***************************************************************************)
(* The table helpers of core/luautils.c (luautils_table_*, xpack, xunpack) *)
(* as C functions call them, one after the other, on a table without       *)
(* metatable that Lua code fills in between.                               *)
(*                                                                         *)
(* lua_next visits the fields in an order that says nothing about them.    *)
(* Only the filter of table_keys runs Lua code during a traversal, so only *)
(* that one is modelled field by field: the filter may clear or assign     *)
(* fields, but when it adds one, lua_next may from then on visit fields    *)
(* twice, skip some, or fail.                                              *)
(***************************************************************************)
EXTENDS Integers, FiniteSets, FiniteSetsExt, Sequences, SequencesExt

CONSTANTS
  Indices,    \* the integers that are keys
  Numerals,   \* other keys lua_isnumber accepts: strings, and fractions
  Names,      \* keys that are no numbers
  Truncated,  \* what lua_tointeger makes of each of Numerals
  Values,     \* the values of fields
  Pointers,   \* those that are cdata
  Plain,      \* those that cannot be converted to a pointer
  Nil,
  Sources,    \* tables for table_merge
  MaxPack,    \* bound: values packed
  MaxChanges  \* bound: changes the filter makes

Keys == Indices \cup Numerals \cup Names
Items == Values \cup {Nil}
Tables == [Keys -> Items]
Empty == [k \in Keys |-> Nil]

ASSUME LuaTablesAssumption ==
  /\ Indices \subseteq Nat \ {0} /\ IsFiniteSet(Keys)
  /\ Numerals \cap Indices = {} /\ Names \cap (Indices \cup Numerals) = {}
  /\ Truncated \in [Numerals -> Int]
  /\ Pointers \subseteq Values /\ Plain \subseteq Values \ Pointers
  /\ Nil \notin Values \cup Keys
  /\ Sources \subseteq Tables
  /\ MaxPack \in Nat /\ MaxChanges \in Nat

VARIABLES
  table,  \* the table: what each key is mapped to
  walk,   \* the traversal of table_keys, if one is under way
  pack,   \* a table from xpack, if there is one: its elements, and t[0]
  ret     \* history: the last helper's name, arguments and results

ltvars == <<table, walk, pack, ret>>

None == [op |-> "none"]
Live == {k \in Keys : table[k] # Nil}

LTInit == /\ table = Empty
          /\ walk = None /\ pack = None /\ ret = None

\* No helper is running.
Idle == walk = None /\ pack = None
Returns(r) == ret' = r /\ UNCHANGED <<walk, pack>>

\* Lua code changes the table.
Assign == /\ Idle
          /\ \E k \in Keys, v \in Items : table' = [table EXCEPT ![k] = v]
          /\ Returns(None)

(***************************************************************************)
(* luautils_table_keys                                                     *)
(***************************************************************************)
\* fields: to be visited; key: the one the filter is called for; added: a field
\* was added; result and count: the keys stored, and how many.  History: the
\* fields that were there all the time, and the keys the filter accepted.
KeysBegin == /\ Idle
             /\ walk' = [fields |-> Live, key |-> Nil, added |-> FALSE, changes |-> 0,
                         result |-> {}, count |-> 0, lasting |-> Live, asked |-> {},
                         accepted |-> {}]
             /\ ret' = None /\ UNCHANGED <<table, pack>>

Stored(w, use) == IF use THEN [w EXCEPT !.result = @ \cup {w.key}, !.count = @ + 1] ELSE w

\* Mutant of Visit: the key of the last visit is not remembered.
VisitAny == /\ walk # None /\ walk.key = Nil /\ walk.count < Cardinality(Keys)
            /\ \E k \in Live :
                 walk' = [walk EXCEPT !.key = k, !.fields = @ \ {k}, !.asked = @ \cup {k}]
            /\ UNCHANGED <<table, pack, ret>>

\* lua_next finds another field.  After an addition it may be any.
Visit == /\ walk # None /\ walk.key = Nil
         /\ walk.added => walk.count < Cardinality(Keys)  \* bound
         /\ \E k \in (IF walk.added THEN Live ELSE walk.fields \cap Live) :
              walk' = [walk EXCEPT !.key = k, !.fields = @ \ {k}, !.asked = @ \cup {k}]
         /\ UNCHANGED <<table, pack, ret>>

\* The filter, if there is one, says whether to use the key, after it has
\* perhaps changed a field.
Filtered(w, use, k, v) ==
  [Stored(w, use) EXCEPT !.key = Nil,
                         !.changes = IF table[k] # v THEN @ + 1 ELSE @,
                         !.added = @ \/ (table[k] = Nil /\ v # Nil),
                         !.lasting = IF v = Nil THEN @ \ {k} ELSE @,
                         !.accepted = IF use THEN @ \cup {w.key} ELSE @]
Filter == /\ walk # None /\ walk.key # Nil
          /\ \E use \in BOOLEAN, k \in Keys, v \in Items :
               /\ table[k] # v => walk.changes < MaxChanges
               /\ table' = [table EXCEPT ![k] = v]
               /\ walk' = Filtered(walk, use, k, v)
          /\ UNCHANGED <<pack, ret>>

\* lua_next finds no other.
KeysEnd == /\ walk # None /\ walk.key = Nil
           /\ walk.added \/ walk.fields \cap Live = {}
           /\ ret' = [op |-> "keys", walk |-> walk]
           /\ walk' = None /\ UNCHANGED <<table, pack>>

\* An error in the filter, or, after an addition, in lua_next.
KeysRaise == /\ walk # None /\ (walk.key # Nil \/ walk.added)
             /\ walk' = None /\ UNCHANGED <<table, pack, ret>>

(***************************************************************************)
(* luautils_table_keyof, with the value v on top of the stack              *)
(***************************************************************************)
\* luautils_equal: with a cdata both must be convertible to a pointer.
Raises(v, w) == {v, w} \cap Pointers # {} /\ {v, w} \cap Plain # {}

\* Mutant of Ends: only the array is searched.
EndsIndices(v) == {k \in Live \cap Indices : table[k] = v \/ Raises(table[k], v)}
Ends(v) == {k \in Live : table[k] = v \/ Raises(table[k], v)}

\* The first field that is equal, or raises an error, ends the search.  Nil is
\* not looked for; it stays on the stack below the result.
Keyof(v) ==
  LET result(found, key, left) == Returns([op |-> "keyof", value |-> v, found |-> found,
                                           key |-> key, left |-> left])
  IN /\ Idle /\ UNCHANGED table
     /\ \/ v = Nil /\ result(FALSE, Nil, 1)
        \/ v # Nil /\ Ends(v) = {} /\ result(FALSE, Nil, 0)
        \/ v # Nil /\ \E k \in Ends(v) :
             IF Raises(table[k], v) THEN Returns([op |-> "raised", value |-> v])
             ELSE result(TRUE, k, 0)

(***************************************************************************)
(* luautils_table_count, luautils_table_append, luautils_table_issequential *)
(***************************************************************************)
Numbers == Live \cap (Indices \cup Numerals)
AsInteger(k) == IF k \in Indices THEN k ELSE Truncated[k]
MaxN == Max({0} \cup {AsInteger(k) : k \in Numbers})

Count == Idle /\ UNCHANGED table
         /\ Returns([op |-> "count", count |-> Cardinality(Live), maxn |-> MaxN])

\* Mutant of Position: the next position is that after the last element.
PositionCount(pos) == IF pos < 1 THEN Cardinality(Live) + 1 ELSE pos
Position(pos) == IF pos < 1 THEN MaxN + 1 ELSE pos

TableAppend(pos, v) == /\ Idle /\ Position(pos) \in Indices  \* bound
                       /\ table' = [table EXCEPT ![Position(pos)] = v]
                       /\ Returns([op |-> "append", pos |-> pos, value |-> v, before |-> table])

\* Mutant of Sequential: an empty table is a sequence.
SequentialEmpty == \A seq \in 1 .. Cardinality(Live) : seq \in Live
\* For as many fields as there are, one at 1, 2, 3 and so on.
Sequential == Live # {} /\ \A seq \in 1 .. Cardinality(Live) : seq \in Live
IsSequential == Idle /\ UNCHANGED table /\ Returns([op |-> "issequential", result |-> Sequential])

(***************************************************************************)
(* luautils_table_merge.  An argument may also be nil or the destination   *)
(* itself, which changes nothing, like an empty table; anything else is an *)
(* error, and what came before it has been merged.  Bound: two arguments.  *)
(***************************************************************************)
Into(dest, source) == [k \in Keys |-> IF source[k] # Nil THEN source[k] ELSE dest[k]]
Merge(first, second) == /\ Idle
                        /\ table' = Into(Into(table, first), second)
                        /\ Returns(None)

(***************************************************************************)
(* luautils_xpack of some values; then perhaps Lua code changes the table; *)
(* then luautils_xunpack of all of it.                                     *)
(***************************************************************************)
Xpack(items) == /\ Idle
                /\ pack' = [items |-> items, count |-> Len(items), changes |-> 0]
                /\ ret' = None /\ UNCHANGED <<table, walk>>

ChangePack == /\ pack # None /\ pack.changes < MaxChanges
              /\ \/ \E i \in DOMAIN pack.items, v \in Items :
                      pack' = [pack EXCEPT !.items[i] = v, !.changes = @ + 1]
                 \/ pack' = [pack EXCEPT !.count = Nil, !.changes = @ + 1]
              /\ UNCHANGED <<table, walk, ret>>

\* lua_objlen: any n with t[n] there and t[n + 1] not.
Borders(items) == {n \in 0 .. Len(items) : /\ n = 0 \/ items[n] # Nil
                                           /\ n = Len(items) \/ items[n + 1] = Nil}
\* Mutant of Extents: t[0] is not looked at.
ExtentsLength == Borders(pack.items)
Extents == IF pack.count # Nil THEN {pack.count} ELSE Borders(pack.items)
Xunpack == /\ pack # None
           /\ \E to \in Extents :
                ret' = [op |-> "xunpack", values |-> [i \in 1 .. to |-> pack.items[i]], pack |-> pack]
           /\ pack' = None /\ UNCHANGED <<table, walk>>

Helper == \/ \E v \in Items : Keyof(v)
          \/ Count
          \/ \E pos \in {0} \cup Indices, v \in Items : TableAppend(pos, v)
          \/ IsSequential
          \/ \E first, second \in Sources \cup {Empty} : Merge(first, second)
          \/ \E items \in SeqOf(Items, MaxPack) : Xpack(items)

LTNext == Assign \/ KeysBegin \/ Visit \/ Filter \/ KeysEnd \/ KeysRaise
          \/ Helper \/ ChangePack \/ Xunpack

LTSpec == LTInit /\ [][LTNext]_ltvars

(***************************************************************************)
(* Properties                                                              *)
(***************************************************************************)
\* Types; nothing else runs during a traversal or on a packed table, and no
\* helper has answered meanwhile.
Walks == [fields : SUBSET Keys, key : Keys \cup {Nil}, added : BOOLEAN, changes : Nat,
          result : SUBSET Keys, count : Nat, lasting : SUBSET Keys, asked : SUBSET Keys,
          accepted : SUBSET Keys]
Packs == [items : Seq(Items), count : Nat \cup {Nil}, changes : Nat]
LTTypeOK == /\ table \in Tables
            /\ walk # None => walk \in Walks /\ pack = None
            /\ pack # None => pack \in Packs
            /\ walk # None \/ pack # None => ret = None

\* table_keys stores exactly the keys its filter accepts, each once, and none
\* of the fields that are there all the time is left out, although the filter
\* may clear and assign fields meanwhile; only adding one may break that.
KeysExact ==
  ret.op = "keys" /\ ~ret.walk.added =>
    /\ ret.walk.result = ret.walk.accepted /\ ret.walk.count = Cardinality(ret.walk.result)
    /\ ret.walk.lasting \subseteq ret.walk.asked

\* table_append without a position overwrites nothing, and moves no element:
\* strings and fractions that are taken for numbers make holes at most.
AppendFresh ==
  ret.op = "append" /\ ret.pos < 1 =>
    \A k \in Keys : ret.before[k] # Nil => table[k] = ret.before[k]

\* table_issequential: "Test if a table is a sequential array" by counting
\* finds exactly the tables whose keys are 1 to n.
SequentialIff ==
  ret.op = "issequential" =>
    (ret.result <=> \E n \in 1 .. Cardinality(Keys) : Live = 1 .. n)

\* table_keyof finds a value that is there, and does not find one that is not;
\* it fails to answer only if cdata meet a value that is no pointer.
KeyofTrue ==
  /\ ret.op = "keyof" =>
       IF ret.found THEN table[ret.key] = ret.value
       ELSE ret.value \notin {table[k] : k \in Live}
  /\ ret.op = "raised" => ({ret.value} \cup {table[k] : k \in Live}) \cap Plain # {}

\* xpack: "a 'safer' (more reliable) way of storing nil values".  What was
\* packed comes back with all its nils, whatever elements were set to nil in
\* between, as long as t[0] is left alone.
PackRoundTrip == ret.op = "xunpack" /\ ret.pack.count # Nil => ret.values = ret.pack.items
=============================================================================
