----------------------------- MODULE InternTable -----------------------------
(***************************************************************************)
(* What the symbol interner promises its callers: a table from byte        *)
(* strings to symbols that only grows, in which every entry appears        *)
(* atomically and no two strings get the same symbol.  A call of           *)
(* get_sym_or_insert is one atomic lookup-or-insert between its start and  *)
(* its return.  The concurrent implementation is module Interning.         *)
(***************************************************************************)
CONSTANTS
  Threads,   \* the threads that may call the interner
  Keys,      \* the byte strings that get interned
  Symbols,   \* the 8-byte symbols
  NoKey,     \* a thread that is in no call
  NoSym      \* no symbol

VARIABLES
  table,     \* symbol of each string, NoSym while it has none
  req,       \* the argument of the call a thread is in
  ret        \* the result of that call, once it is decided

avars == <<table, req, ret>>

Init ==
  /\ table = [k \in Keys |-> NoSym]
  /\ req = [t \in Threads |-> NoKey]
  /\ ret = [t \in Threads |-> NoSym]

\* get_sym_or_insert(bytes) is called.
Call(t, k) ==
  /\ req[t] = NoKey
  /\ req' = [req EXCEPT ![t] = k]
  /\ UNCHANGED <<table, ret>>

\* The string already has a symbol: that symbol is the answer.
Found(t) ==
  /\ req[t] # NoKey
  /\ ret[t] = NoSym
  /\ table[req[t]] # NoSym
  /\ ret' = [ret EXCEPT ![t] = table[req[t]]]
  /\ UNCHANGED <<table, req>>

\* The string gets a symbol that no string has.
Insert(t, s) ==
  /\ req[t] # NoKey
  /\ ret[t] = NoSym
  /\ table[req[t]] = NoSym
  /\ \A k \in Keys : table[k] # s
  /\ table' = [table EXCEPT ![req[t]] = s]
  /\ ret' = [ret EXCEPT ![t] = s]
  /\ UNCHANGED req

\* The call returns its result.
Return(t) ==
  /\ ret[t] # NoSym
  /\ req' = [req EXCEPT ![t] = NoKey]
  /\ ret' = [ret EXCEPT ![t] = NoSym]
  /\ UNCHANGED table

Next ==
  \E t \in Threads :
    \/ \E k \in Keys : Call(t, k)
    \/ Found(t)
    \/ \E s \in Symbols : Insert(t, s)
    \/ Return(t)

Spec == Init /\ [][Next]_avars
=============================================================================
