--------------------------------- MODULE Cells ---------------------------------
(***************************************************************************)
(* AtomicOption: an optional value that is plain while a hive is being     *)
(* configured (Unsync) and shared and atomic while it runs (Sync).  An     *)
(* option is a set of at most one value.                                   *)
(***************************************************************************)
EXTENDS Naturals

None == {}
Some(v) == {v}
ValueOf(opt) == CHOOSE v \in opt : TRUE

Unsync(opt) == [sync |-> FALSE, opt |-> opt]
Sync(opt) == [sync |-> TRUE, opt |-> opt]

Get(cell) == cell.opt
GetOrDefault(cell, default) == IF Get(cell) = None THEN default ELSE ValueOf(Get(cell))

\* Through a unique reference: always possible.
Set(cell, opt) == [cell EXCEPT !.opt = opt]

IntoSync(cell) == Sync(cell.opt)
IntoSyncDefault(cell, default) == Sync(Some(GetOrDefault(cell, default)))
IntoUnsync(cell) == Unsync(cell.opt)

\* Through a shared reference: only a Sync cell that is set can be changed; on any
\* other the operation returns a MutError and leaves the cell as it is.
CanMutate(cell) == cell.sync /\ cell.opt # None

\* Atomic::set_with: the function, which makes new of the value v, may decline to
\* change it.
SetWith(v, new) == IF new = None THEN v ELSE ValueOf(new)

UpdateWith(cell, new) ==
  IF CanMutate(cell) THEN Sync(Some(SetWith(ValueOf(cell.opt), new))) ELSE cell

AddTo(cell, n) == UpdateWith(cell, Some(ValueOf(cell.opt) + n))
SetMax(cell, n) == UpdateWith(cell, IF ValueOf(cell.opt) < n THEN Some(n) ELSE None)
================================================================================
