------------------------------ MODULE Accounts ------------------------------
(* Gateway accounts (gateway/repository.go, api/admin_gateways.go) and the  *)
(* payments made through them (payment/service.go Create).  At most one     *)
(* account per environment is the default, by a partial unique index; a     *)
(* promotion clears the old default and sets the new one in a transaction   *)
(* of several statements at READ COMMITTED: an UPDATE waits for a row that  *)
(* another transaction holds and then looks at that row again, but does not *)
(* see rows that came to match since it began.                              *)
EXTENDS Naturals

CONSTANTS
  Accounts,      \* account ids
  Operators,     \* administrators' requests under way at a time
  Payers,        \* applications' requests under way at a time
  NoAccount,
  FirstAccounts, \* the accounts at first
  MaxEdits       \* bound: administrators' requests in all

VARIABLES
  account,   \* gateway_accounts, as committed
  tx,        \* each operator's transaction
  payer,     \* each payment request
  paidWith,  \* accounts a payment refers to
  reached,   \* <<mode, environment>> of the charges that reached a gateway
  edits

accountVars == <<account, tx, payer, paidWith, reached, edits>>

Environments == {"sandbox", "production"}
Modes == {"test", "live"}
AccountRows == [env : Environments, default : BOOLEAN]
NoAccountRow == [env |-> "sandbox", default |-> FALSE, id |-> NoAccount]
HasAccount(a) == account[a] # NoAccountRow

(* The index is there from the start. *)
ASSUME FirstAccountsAssumption ==
  /\ DOMAIN FirstAccounts \subseteq Accounts
  /\ \A a \in DOMAIN FirstAccounts : FirstAccounts[a] \in AccountRows
  /\ \A a, b \in DOMAIN FirstAccounts :
       /\ FirstAccounts[a].default /\ FirstAccounts[b].default
       /\ FirstAccounts[a].env = FirstAccounts[b].env
       => a = b
ASSUME EditsAssumption == MaxEdits \in Nat

(* Account.ExpectedKeyMode *)
ExpectedKeyMode(env) == IF env = "sandbox" THEN "test" ELSE "live"

(* What an update asks for; "keep" where the field is left out.             *)
Wishes == [env : Environments \cup {"keep"}, default : {"yes", "no", "keep"}]

(* A transaction: its account, what it asks for, the environment it found,  *)
(* the defaults its clearing statement saw, the rows it has written and not *)
(* committed, and whether no other transaction ran beside it.               *)
TxStages == {"none", "get", "snapshot", "clear", "write", "commit"}
NoTx == [stage |-> "none", target |-> NoAccount, insert |-> FALSE,
         wish |-> [env |-> "keep", default |-> "keep"],
         env |-> "sandbox", saw |-> {}, wrote |-> {}, row |-> NoAccountRow, alone |-> TRUE]
Transactions ==
  [stage : TxStages, target : Accounts \cup {NoAccount}, insert : BOOLEAN, wish : Wishes,
   env : Environments, saw : SUBSET Accounts, wrote : SUBSET Accounts,
   row : AccountRows \cup {NoAccountRow}, alone : BOOLEAN]

PayerStates == [stage : {"none", "insert", "charge", "done"}, mode : Modes,
                account : Accounts \cup {NoAccount}, env : Environments]
NoPayment == [stage |-> "none", mode |-> "test", account |-> NoAccount, env |-> "sandbox"]

AccountsTypeOK ==
  /\ account \in [Accounts -> AccountRows \cup {NoAccountRow}]
  /\ tx \in [Operators -> Transactions]
  /\ payer \in [Payers -> PayerStates]
  /\ paidWith \subseteq Accounts
  /\ reached \subseteq Modes \X Environments
  /\ edits \in 0..MaxEdits

AccountsInit ==
  /\ account = [a \in Accounts |->
                  IF a \in DOMAIN FirstAccounts THEN FirstAccounts[a] ELSE NoAccountRow]
  /\ tx = [o \in Operators |-> NoTx]
  /\ payer = [p \in Payers |-> NoPayment]
  /\ paidWith = {}
  /\ reached = {}
  /\ edits = 0

-----------------------------------------------------------------------------
(* Transactions *)

Active(o) == tx[o].stage # "none"
Others(o) == {q \in Operators \ {o} : Active(q)}
Locked(o, a) == \E q \in Others(o) : a \in tx[q].wrote

(* What transaction o sees of account a: the committed row, or its own      *)
(* clearing of it.                                                          *)
Seen(o, a) ==
  IF a \in tx[o].wrote /\ a # tx[o].target THEN [account[a] EXCEPT !.default = FALSE] ELSE account[a]

DefaultOf(row, env) == row # NoAccountRow /\ row.default /\ row.env = env

Begin(o, t) ==
  tx' = [q \in Operators |->
           IF q = o THEN [t EXCEPT !.alone = Others(o) = {}]
           ELSE [tx[q] EXCEPT !.alone = @ /\ ~Active(q)]]

End(o) == tx' = [tx EXCEPT ![o] = NoTx]

Edit == edits < MaxEdits /\ edits' = edits + 1

(* handleCreateGatewayAccount and Create.                                   *)
CreateAccount(o, a, env, isDefault) ==
  /\ ~Active(o) /\ Edit
  /\ ~HasAccount(a) /\ \A q \in Operators : tx[q].target # a
  /\ Begin(o, [NoTx EXCEPT !.target = a, !.insert = TRUE, !.env = env,
                 !.wish = [env |-> env, default |-> IF isDefault THEN "yes" ELSE "no"],
                 !.stage = IF isDefault THEN "snapshot" ELSE "write"])
  /\ UNCHANGED <<account, payer, paidWith, reached>>

(* handleUpdateGatewayAccount and Update.                                   *)
UpdateAccount(o, a, wish) ==
  /\ ~Active(o) /\ Edit
  /\ HasAccount(a)
  /\ Begin(o, [NoTx EXCEPT !.target = a, !.wish = wish,
                 !.stage = IF wish.default = "yes" THEN "get" ELSE "write"])
  /\ UNCHANGED <<account, payer, paidWith, reached>>

(* A promotion reads its account for the environment the default is for.    *)
GetCurrent(o) ==
  LET t == tx[o] IN
  /\ t.stage = "get"
  /\ IF HasAccount(t.target)
       THEN tx' = [tx EXCEPT ![o].stage = "snapshot",
                     ![o].env = IF t.wish.env = "keep" THEN account[t.target].env ELSE t.wish.env]
       ELSE End(o)
  /\ UNCHANGED <<account, payer, paidWith, reached, edits>>

(* The defaults of the environment the account is still in.               *)
BugCurrentDefaults(o) ==
  {a \in Accounts \ {tx[o].target} :
     HasAccount(tx[o].target) /\ DefaultOf(account[a], account[tx[o].target].env)}

(* clearDefault begins: the rows it will look at are those that match now.  *)
CurrentDefaults(o) == {a \in Accounts \ {tx[o].target} : DefaultOf(account[a], tx[o].env)}

ClearSnapshot(o) ==
  /\ tx[o].stage = "snapshot"
  /\ tx' = [tx EXCEPT ![o].stage = "clear", ![o].saw = CurrentDefaults(o)]
  /\ UNCHANGED <<account, payer, paidWith, reached, edits>>

(* ... and ends, once no other transaction holds one of them.               *)
ClearDefault(o) ==
  LET t == tx[o] IN
  /\ t.stage = "clear"
  /\ \A a \in t.saw : ~Locked(o, a)
  /\ tx' = [tx EXCEPT ![o].stage = "write", ![o].saw = {},
              ![o].wrote = {a \in t.saw : DefaultOf(account[a], t.env)}]
  /\ UNCHANGED <<account, payer, paidWith, reached, edits>>

(* The row INSERT or UPDATE would leave: coalesce of what was asked for.    *)
NewRow(o) ==
  LET t == tx[o] IN
  [env |-> IF t.wish.env = "keep" THEN account[t.target].env ELSE t.wish.env,
   default |-> IF t.wish.default = "keep" THEN account[t.target].default ELSE t.wish.default = "yes"]

(* An index that is not unique. *)
BugTaken(o, env) == FALSE

(* The partial unique index waits for an undecided entry and refuses a      *)
(* second one; the error rolls the transaction back.                        *)
Undecided(o, env) == \E q \in Others(o) : tx[q].row # NoAccountRow /\ DefaultOf(tx[q].row, env)
Taken(o, env) == \E a \in Accounts \ {tx[o].target} : DefaultOf(Seen(o, a), env)

WriteRow(o) ==
  LET t == tx[o] IN
  /\ t.stage = "write"
  /\ ~Locked(o, t.target)
  /\ IF ~t.insert /\ ~HasAccount(t.target) THEN End(o)
     ELSE LET row == NewRow(o) IN
          /\ row.default => ~Undecided(o, row.env)
          /\ IF row.default /\ Taken(o, row.env) THEN End(o)
             ELSE tx' = [tx EXCEPT ![o].stage = "commit", ![o].row = row,
                                   ![o].wrote = @ \cup {t.target}]
  /\ UNCHANGED <<account, payer, paidWith, reached, edits>>

Commit(o) ==
  LET t == tx[o] IN
  /\ t.stage = "commit"
  /\ account' = [a \in Accounts |-> IF a = t.target THEN t.row ELSE Seen(o, a)]
  /\ End(o)
  /\ UNCHANGED <<payer, paidWith, reached, edits>>

(* A statement fails, the client goes away, or two transactions wait for    *)
(* each other and the database ends one.                                    *)
Rollback(o) ==
  /\ Active(o)
  /\ End(o)
  /\ UNCHANGED <<account, payer, paidWith, reached, edits>>

(* handleDeleteGatewayAccount: refused while a payment refers to it.        *)
DeleteAccount(o, a) ==
  /\ ~Active(o) /\ Edit
  /\ HasAccount(a) /\ ~Locked(o, a) /\ a \notin paidWith
  /\ account' = [account EXCEPT ![a] = NoAccountRow]
  /\ tx' = [q \in Operators |-> [tx[q] EXCEPT !.alone = @ /\ ~Active(q)]]
  /\ UNCHANGED <<payer, paidWith, reached>>

-----------------------------------------------------------------------------
(* Payments *)

(* A mode check that only keeps live keys out of the sandbox.               *)
BugModeAllowed(mode, env) == mode = "test" \/ env = "production"

(* accountFor and the mode check: the application's own account, if it is   *)
(* usable, or else the default one of either environment, so any account;   *)
(* all the request knows of it is read here.                                *)
ModeAllowed(mode, env) == mode = ExpectedKeyMode(env)

AccountFor(p, mode) ==
  /\ payer[p].stage = "none"
  /\ \E a \in Accounts :
       /\ HasAccount(a)
       /\ ModeAllowed(mode, account[a].env)
       /\ payer' = [payer EXCEPT ![p] = [stage |-> "insert", mode |-> mode,
                                         account |-> a, env |-> account[a].env]]
  /\ UNCHANGED <<account, tx, paidWith, reached, edits>>

AnsweredPayment(p) == [NoPayment EXCEPT !.stage = "done"]

(* repo.Create: the row refers to the account, which must still be there.   *)
InsertPayment(p) ==
  /\ payer[p].stage = "insert"
  /\ IF HasAccount(payer[p].account)
       THEN /\ paidWith' = paidWith \cup {payer[p].account}
            /\ payer' = [payer EXCEPT ![p].stage = "charge"]
       ELSE payer' = [payer EXCEPT ![p] = AnsweredPayment(p)] /\ UNCHANGED paidWith
  /\ UNCHANGED <<account, tx, reached, edits>>

(* The adapter was built from the account as it was read, so the request    *)
(* goes to that environment whatever the account says by now.               *)
ChargeEnvironment(p) == payer[p].env
Charge(p) ==
  /\ payer[p].stage = "charge"
  /\ reached' = reached \cup {<<payer[p].mode, ChargeEnvironment(p)>>}
  /\ payer' = [payer EXCEPT ![p] = AnsweredPayment(p)]
  /\ UNCHANGED <<account, tx, paidWith, edits>>

AccountsNext ==
  \/ \E o \in Operators :
       \/ \E a \in Accounts, env \in Environments, isDefault \in BOOLEAN :
            CreateAccount(o, a, env, isDefault)
       \/ \E a \in Accounts, wish \in Wishes : UpdateAccount(o, a, wish)
       \/ \E a \in Accounts : DeleteAccount(o, a)
       \/ GetCurrent(o) \/ ClearSnapshot(o) \/ ClearDefault(o) \/ WriteRow(o)
       \/ Commit(o) \/ Rollback(o)
  \/ \E p \in Payers :
       \/ \E mode \in Modes : AccountFor(p, mode)
       \/ InsertPayment(p) \/ Charge(p)

AccountsSpec == AccountsInit /\ [][AccountsNext]_accountVars

-----------------------------------------------------------------------------
(* Properties *)

(* However many promotions, moves between environments and deletions run    *)
(* together, an environment never ends up with two defaults, although each  *)
(* promotion clears only the defaults it can see (clearDefault, the index   *)
(* gateway_accounts_default_key).                                           *)
OneDefaultPerEnvironment ==
  \A a, b \in Accounts, env \in Environments :
    DefaultOf(account[a], env) /\ DefaultOf(account[b], env) => a = b

(* A promotion that nobody else edits accounts beside is never refused: it  *)
(* has cleared what the index would stumble over (clearDefault: "so the     *)
(* partial unique index cannot be violated by promoting a new default").    *)
LonePromotionIsNotRefused ==
  [][\A o \in Operators :
       /\ tx[o].stage = "write" /\ tx[o].wish.default = "yes" /\ tx[o].alone
       => ~Taken(o, NewRow(o).env)]_accountVars

(* A test key moves no real money and a live key never lands in the         *)
(* sandbox, even when the account is moved to the other environment while   *)
(* the payment is being made (Account.ExpectedKeyMode).                     *)
KeysKeepToTheirEnvironment == \A r \in reached : r[1] = ExpectedKeyMode(r[2])
=============================================================================
