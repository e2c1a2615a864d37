------------------------------- MODULE Devices -------------------------------
(***************************************************************************)
(* device: the devices (service.go, repository.go, handler.go), their      *)
(* groups (groups.go) and the configuration templates (templates.go).      *)
(* Each database statement is a step of its own.  Of a device the state is *)
(* kept, of a group or a template one value.  Nothing checks the group or  *)
(* the template a device names, so the three tables share only their code. *)
(***************************************************************************)
EXTENDS Integers

CONSTANTS
  RowIds,      \* of each of the three tables
  Editors,     \* requests under way at once
  MaxWrites    \* bound: requests in a behaviour

ASSUME DevicesAssumption == MaxWrites \in Nat

VARIABLES
  table,       \* the rows, soft-deleted ones too
  editor,      \* each request
  writes,      \* requests begun, for MaxWrites
  current      \* ghost: the writers nobody has written their row under

deviceVars == <<table, editor, writes, current>>

RowKinds == {"device", "group", "template"}
States == {"online", "monitoring_issue", "offline", "maintenance"}
Values(kind) == IF kind = "device" THEN States ELSE {"one", "two"}
Keys == RowKinds \X RowIds

NoEdit == [pc |-> "idle"]
Present == {k \in DOMAIN table : ~table[k].gone}
EditorGoes(w, step) == editor' = [editor EXCEPT ![w] = step]

\* A statement that writes row k.
Stores(k, row) ==
  /\ table' = [j \in DOMAIN table \cup {k} |-> IF j = k THEN row ELSE table[j]]
  /\ current' = {w \in current : editor[w].key # k}

DevicesInit ==
  /\ table = <<>> /\ editor = [w \in Editors |-> NoEdit] /\ writes = 0 /\ current = {}

EditorBegins(w) == editor[w] = NoEdit /\ writes < MaxWrites /\ writes' = writes + 1

\* Create: one insert, under a new id.  A device may be created in any state.
CreateRow(w, k, value) ==
  /\ EditorBegins(w) /\ k \notin DOMAIN table
  /\ Stores(k, [value |-> value, gone |-> FALSE])
  /\ UNCHANGED editor

DeleteRow(w, k) ==
  /\ EditorBegins(w) /\ k \in Present
  /\ Stores(k, [table[k] EXCEPT !.gone = TRUE])
  /\ UNCHANGED editor

\* Update and ApplyAction load the row and change the copy.
LoadRow(w, k, value, op) ==
  /\ EditorBegins(w) /\ k \in Present
  /\ EditorGoes(w, [pc |-> IF k[1] = "device" THEN "find" ELSE "save", key |-> k,
              op |-> op, row |-> [table[k] EXCEPT !.value = value]])
  /\ current' = current \cup {w}
  /\ UNCHANGED table

\* Mutant: a state left out is the default state, as in Create.
UpdateDefault(w, k) ==
  \E v \in Values(k[1]) :
    \/ LoadRow(w, k, v, "set")
    \/ k \in Present /\ LoadRow(w, k, IF k[1] = "device" THEN "online" ELSE table[k].value, "keep")

\* Fields left out keep what was loaded.
Update(w, k) ==
  \E v \in Values(k[1]) :
    \/ LoadRow(w, k, v, "set")
    \/ k \in Present /\ LoadRow(w, k, table[k].value, "keep")

EnterMaintenance(w, k) ==
  /\ k \in Present /\ table[k].value # "maintenance"
  /\ LoadRow(w, k, "maintenance", "set")

ExitMaintenance(w, k) ==
  /\ k \in Present /\ table[k].value = "maintenance"
  /\ LoadRow(w, k, "online", "set")

\* Repository.Update of a device looks again whether the row is there.
FindRow(w) ==
  /\ editor[w].pc = "find"
  /\ IF editor[w].key \in Present
     THEN EditorGoes(w, [editor[w] EXCEPT !.pc = "save"]) /\ UNCHANGED current
     ELSE EditorGoes(w, NoEdit) /\ current' = current \ {w}
  /\ UNCHANGED <<table, writes>>

\* Save writes every column, and inserts the row again if it is gone by now.
SaveRow(w) ==
  /\ editor[w].pc = "save"
  /\ Stores(editor[w].key, editor[w].row)
  /\ EditorGoes(w, NoEdit)
  /\ UNCHANGED writes

-----------------------------------------------------------------------------
(* The operations of the three handlers.                                   *)
CreateDevice(w, i, state) == CreateRow(w, <<"device", i>>, state)
UpdateDevice(w, i) == Update(w, <<"device", i>>)
DeleteDevice(w, i) == DeleteRow(w, <<"device", i>>)

CreateGroup(w, i, value) == CreateRow(w, <<"group", i>>, value)
UpdateGroup(w, i) == Update(w, <<"group", i>>)
DeleteGroup(w, i) == DeleteRow(w, <<"group", i>>)

CreateTemplate(w, i, value) == CreateRow(w, <<"template", i>>, value)
UpdateTemplate(w, i) == Update(w, <<"template", i>>)
DeleteTemplate(w, i) == DeleteRow(w, <<"template", i>>)

DevicesNext ==
  \/ \E w \in Editors, i \in RowIds :
       \/ \E s \in States : CreateDevice(w, i, s)
       \/ UpdateDevice(w, i) \/ DeleteDevice(w, i)
       \/ EnterMaintenance(w, <<"device", i>>) \/ ExitMaintenance(w, <<"device", i>>)
       \/ \E v \in Values("group") : CreateGroup(w, i, v)
       \/ UpdateGroup(w, i) \/ DeleteGroup(w, i)
       \/ \E v \in Values("template") : CreateTemplate(w, i, v)
       \/ UpdateTemplate(w, i) \/ DeleteTemplate(w, i)
  \/ \E w \in Editors : FindRow(w) \/ SaveRow(w)

DevicesSpec == DevicesInit /\ [][DevicesNext]_deviceVars

-----------------------------------------------------------------------------
(* Every variable holds what the code can put in it.                       *)
DevicesTypeOK ==
  /\ DOMAIN table \subseteq Keys
  /\ \A k \in DOMAIN table : table[k] \in [value : Values(k[1]), gone : BOOLEAN]
  /\ DOMAIN editor = Editors /\ current \subseteq Editors /\ writes \in 0..MaxWrites

\* w is about to save a row someone has written since w loaded it.
Overtaken(w, k) == editor[w].pc = "save" /\ editor[w].key = k /\ w \notin current

(***************************************************************************)
(* A deleted row comes back, and a device enters or leaves maintenance     *)
(* though its request asked for no state, only by the Save of a request    *)
(* overtaken by another write.                                             *)
(***************************************************************************)
RowsTold ==
  [][\A k \in DOMAIN table :
       /\ table[k].gone /\ ~table'[k].gone => \E w \in Editors : Overtaken(w, k)
       /\ (table[k].value = "maintenance") # (table'[k].value = "maintenance") =>
            \E w \in Editors :
              /\ editor[w].pc = "save" /\ editor[w].key = k
              /\ editor[w].op = "set" \/ Overtaken(w, k)]_deviceVars
=============================================================================
