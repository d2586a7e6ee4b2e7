--------------------------- MODULE VaultRegistry ---------------------------
(***************************************************************************)
(* The registered vaults and the active one (vaults.rs over config.rs):    *)
(* two rows of app_config, each read and written whole by one statement.   *)
(* Three programs share them; a call may stop between two statements.      *)
(***************************************************************************)
EXTENDS Naturals

CONSTANTS
    Programs,   \* the desktop app, the TUI, the MCP server
    Vaults,
    None,       \* no active vault: no row, or an empty value
    MaxOps      \* bound: calls

\* What the constants are.
VaultAssumption == None \notin Vaults /\ MaxOps \in Nat

VARIABLES
    vaults,     \* the list; its order, which is that of insertion, is left out
    selected,   \* active_vault
    op,         \* what each program is doing
    ops,        \* calls so far
    torn        \* history: vaults no longer listed that may still be selected, but for
                \* a removal that goes on and will look: see Stray and Stop

vaultVars == << vaults, selected, op, ops, torn >>

NoOp == [pc |-> "none"]

VaultInit ==
    /\ vaults = {}
    /\ selected = None
    /\ op = [p \in Programs |-> NoOp]
    /\ ops = 0
    /\ torn = {}

\* The calls that have taken v off the list and are yet to look at the active vault.
Removing(v) == {p \in Programs : op[p].pc \in {"active", "clear"} /\ op[p].vault = v}
ToSelect(v) == {p \in Programs : op[p].pc = "select" /\ op[p].vault = v}

Set(p, next) == op' = [op EXCEPT ![p] = next]

\* add_vault and set_active_vault read the list; a vault that is in it is not
\* written again.
BeginAdd(p, v, select) ==
    /\ op[p].pc = "none" /\ ops < MaxOps
    /\ ops' = ops + 1
    /\ Set(p, IF v \notin vaults THEN [pc |-> "add", vault |-> v, list |-> vaults \union {v}, select |-> select]
              ELSE IF select THEN [pc |-> "select", vault |-> v]
              ELSE NoOp)
    /\ UNCHANGED << vaults, selected, torn >>

\* Vaults that the writing of a list leaves out although it was not asked to, for the
\* list was read before they were in it, or although another program, which has found or
\* put the vault on the list, is about to select it.
Stray(list, asked) == {v \in vaults \ list : v \notin asked \/ ToSelect(v) # {}}

WriteList(list, asked) ==
    /\ vaults' = list
    /\ torn' = (torn \union Stray(list, asked)) \ list

WriteAdded(p) ==
    LET o == op[p] IN
    /\ o.pc = "add"
    /\ WriteList(o.list, {})
    /\ Set(p, IF o.select THEN [pc |-> "select", vault |-> o.vault] ELSE NoOp)
    /\ UNCHANGED << selected, ops >>

Select(p) ==
    /\ op[p].pc = "select"
    /\ selected' = op[p].vault
    /\ Set(p, NoOp)
    /\ UNCHANGED << vaults, ops, torn >>

BeginRemove(p, v) ==
    /\ op[p].pc = "none" /\ ops < MaxOps
    /\ ops' = ops + 1
    /\ Set(p, [pc |-> "remove", vault |-> v, list |-> vaults \ {v}])
    /\ UNCHANGED << vaults, selected, torn >>

\* (A mistake: the active vault is not looked at.)
WriteRemovedOnly(p) ==
    LET o == op[p] IN
    /\ o.pc = "remove"
    /\ WriteList(o.list, {o.vault})
    /\ Set(p, NoOp)
    /\ UNCHANGED << selected, ops >>

WriteRemoved(p) ==
    LET o == op[p] IN
    /\ o.pc = "remove"
    /\ WriteList(o.list, {o.vault})
    /\ Set(p, [pc |-> "active", vault |-> o.vault])
    /\ UNCHANGED << selected, ops >>

\* get_active_vault: another vault than the one removed ends the call.
ReadActive(p) ==
    /\ op[p].pc = "active"
    /\ Set(p, IF selected = op[p].vault THEN [pc |-> "clear", vault |-> op[p].vault] ELSE NoOp)
    /\ UNCHANGED << vaults, selected, ops, torn >>

ClearSelected(p) ==
    /\ op[p].pc = "clear"
    /\ selected' = None
    /\ Set(p, NoOp)
    /\ UNCHANGED << vaults, ops, torn >>

\* A statement fails, or the program ends.  A removal that has taken its vault off the
\* list leaves it selected if it was, until it is removed or added again.
Stop(p) ==
    /\ op[p].pc # "none"
    /\ torn' = IF op[p].pc \in {"active", "clear"} THEN torn \union ({op[p].vault} \ vaults) ELSE torn
    /\ Set(p, NoOp)
    /\ UNCHANGED << vaults, selected, ops >>

VaultNext ==
    \E p \in Programs :
      \/ \E v \in Vaults : BeginRemove(p, v) \/ \E select \in BOOLEAN : BeginAdd(p, v, select)
      \/ WriteAdded(p) \/ Select(p) \/ WriteRemoved(p) \/ ReadActive(p) \/ ClearSelected(p)
      \/ Stop(p)

VaultSpec == VaultInit /\ [][VaultNext]_vaultVars

-----------------------------------------------------------------------------
(* Properties.                                                             *)

\* The active vault "must be in `vaults`".  It is, however the calls of several programs
\* overlap and wherever they stop, but for a vault that is off the list and has not been
\* put on it again, in three cases: the removal of the vault has still to look at the
\* active one, or stopped before it had; a list that was read before the vault was added
\* has been written over it; or the vault was taken off between the two writes of the call
\* that selects it.  That a vault is removed while others are, that calls for it overlap
\* elsewhere, or that an addition or a selection stops half way, is no exception.
ActiveRegistered ==
    \/ selected = None
    \/ selected \in vaults
    \/ selected \in torn
    \/ Removing(selected) # {}
=============================================================================
