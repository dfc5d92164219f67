-------------------------- MODULE SettingRegister --------------------------
(***************************************************************************)
(* What the control socket promises about the settings it reads and        *)
(* writes: a call takes effect at most once, at one moment after it was    *)
(* made; a call that was answered well has taken effect by then (unless    *)
(* its handler panicked: it is then void); one that was refused never      *)
(* does. Of a call its client gave up on nothing is known: it may take     *)
(* effect at any later time.                                               *)
(*                                                                         *)
(* The process stores some settings itself, each once and perhaps after a  *)
(* call did. A setting may depend on another one: it is there only while   *)
(* that one is, and may be given up for a default whenever that one is     *)
(* stored. Nothing else changes a setting.                                 *)
(***************************************************************************)
CONSTANTS Calls, Ops, NoOp, NoValue, Default

CONSTANTS
    Item(_),      \* what an operation reads or writes
    IsWrite(_),
    Value(_),     \* the value a writing operation stores
    Items,
    Base(_),      \* the item an item depends on, or the item itself
    Provided      \* the items the process stores itself

VARIABLES
    setting,   \* per item, its value; NoValue: it is not there
    op,        \* per call, its operation
    status,    \* per call, see Statuses
    got,       \* per call, the value it read
    due        \* the items that the process has still to store

regVars == <<setting, op, status, got, due>>

Statuses == {"none", "pending", "effective", "void",    \* the client waits
             "ok", "refused",                           \* it was answered
             "abandoned", "late"}                       \* it gave up

RegInit ==
    /\ setting = [i \in Items |-> NoValue]
    /\ op = [k \in Calls |-> NoOp]
    /\ status = [k \in Calls |-> "none"]
    /\ got = [k \in Calls |-> NoValue]
    /\ due = Provided

Become(k, s) == status' = [status EXCEPT ![k] = s]

Invoke(k) ==
    /\ status[k] = "none"
    /\ \E o \in Ops : op' = [op EXCEPT ![k] = o]
    /\ Become(k, "pending")
    /\ UNCHANGED <<setting, got, due>>

\* v is stored for i, and what depends on i goes with it.
Store(i, v) ==
    \E fresh \in BOOLEAN :
        setting' = [j \in Items |->
            IF j = i THEN v
            ELSE IF Base(j) # i THEN setting[j]
            ELSE IF v = NoValue THEN NoValue
            ELSE IF fresh \/ setting[j] = NoValue THEN Default
            ELSE setting[j]]

\* Nothing can be done to an item whose base is not there.
Usable(i) == Base(i) # i => setting[Base(i)] # NoValue

\* The moment of the call, which may be after its client gave up.
Effect(k) ==
    /\ status[k] \in {"pending", "abandoned"} /\ Usable(Item(op[k]))
    /\ Become(k, IF status[k] = "pending" THEN "effective" ELSE "late")
    /\ IF IsWrite(op[k])
       THEN /\ Store(Item(op[k]), Value(op[k]))
            /\ UNCHANGED got
       ELSE /\ got' = [got EXCEPT ![k] = setting[Item(op[k])]]
            /\ UNCHANGED setting
    /\ UNCHANGED <<op, due>>

\* The process stores a setting, or that there is none.
Provide(i) ==
    /\ i \in due /\ due' = due \ {i}
    /\ \E v \in {Default, NoValue} : Store(i, v)
    /\ UNCHANGED <<op, status, got>>

\* The handler panicked before it did anything.
Void(k) ==
    /\ status[k] = "pending" /\ Become(k, "void")
    /\ UNCHANGED <<setting, op, got, due>>

Answer(k) ==
    /\ status[k] \in {"effective", "void"} /\ Become(k, "ok")
    /\ UNCHANGED <<setting, op, got, due>>

\* A call that read something may still be refused, one that wrote may not.
Refuse(k) ==
    /\ \/ status[k] = "pending"
       \/ status[k] \in {"effective", "void"} /\ ~IsWrite(op[k])
    /\ Become(k, "refused")
    /\ UNCHANGED <<setting, op, got, due>>

Abandon(k) ==
    /\ \/ status[k] \in {"pending", "void"} /\ Become(k, "abandoned")
       \/ status[k] = "effective" /\ Become(k, "late")
    /\ UNCHANGED <<setting, op, got, due>>

RegNext ==
    \/ \E k \in Calls :
          Invoke(k) \/ Effect(k) \/ Void(k) \/ Answer(k) \/ Refuse(k) \/ Abandon(k)
    \/ \E i \in Items : Provide(i)

RegSpec == RegInit /\ [][RegNext]_regVars
=============================================================================
