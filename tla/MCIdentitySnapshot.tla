--------------------------- MODULE MCIdentitySnapshot ---------------------------
(* A small instance of IdentitySnapshot for TLC: a user, his membership, a     *)
(* role and a group, every list of up to three rules between them, and two     *)
(* grants that name the role.                                                  *)
EXTENDS IdentitySnapshot, SequencesExt

Prefix ==
  "alice" :> "user" @@ "member" :> "membership" @@ "clerk" :> "role" @@ "staff" :> "group"
Lists == UNION {[1 .. n -> Rules] : n \in 0 .. 3}

\* Rows are read in any order: one list of each bag of up to most rows is enough.
Bags(pool, most) ==
  LET list == FoldSet(LAMBDA row, done : Append(done, row), <<>>, pool)
  IN UNION {{[i \in 1 .. n |-> list[f[i]]] :
               f \in {g \in [1 .. n -> DOMAIN list] : \A i \in 1 .. n - 1 : g[i] <= g[i + 1]}} :
            n \in 0 .. most}

\* Every quota row in force at time 1.
QuotaPool ==
  {[table |-> "quota", scope |-> Own, effect |-> e, limit |-> l[1], taken |-> l[2],
    start |-> s, end |-> t] :
     e \in {"allow"}, l \in {<<Null, 0>>, <<1, 0>>, <<3, 0>>, <<3, 1>>}, s \in 0 .. 1, t \in {2, 3, Null}}
  \union
  {[table |-> "quota", scope |-> Own, effect |-> "deny", limit |-> Null, taken |-> 0,
    start |-> s, end |-> t] : s \in 0 .. 1, t \in {2, 3, Null}}

AllocationPool ==
  {[table |-> "allocation", scope |-> g, effect |-> "allow", limit |-> l[1], taken |-> l[2]] :
     g \in Grants, l \in {<<1, 0>>, <<3, 0>>, <<3, 1>>}}
  \union
  {[table |-> "allocation", scope |-> g, effect |-> "deny", limit |-> 0, taken |-> 0] : g \in Grants}

FeaturePool ==
  FeatureRows \union {row \in ItemRows : row.table = "feature item"}

\* A grant names a permission, or a role, at most once.
Once(table, list) ==
  \A i, j \in DOMAIN list :
    i # j /\ list[i].table = table /\ list[j].table = table => list[i].scope # list[j].scope

Items ==
  {list \in Bags({row \in ItemRows : row.table # "feature item"}, 4) :
     Once("permission item", list) /\ Once("directory item", list)}

Policies(subjects) == {row \in PolicyRows : row.subject \in subjects}

\* The rows that make a difference with the rules: long lists get few rows.
RowsFor(list) ==
  CASE list = <<>> ->
         Bags(QuotaPool, 3) \union Bags(AllocationPool, 3) \union Bags(FeaturePool, 3)
    [] list = <<[from |-> "clerk", to |-> "staff"]>> ->
         {policies \o items : policies \in Bags(Policies({"clerk", "staff"}), 2), items \in Items}
    [] Len(list) \in 1 .. 2 -> Bags(Policies({"alice", "clerk", "staff"}), 2)
    [] OTHER -> {<<[table |-> "policy", scope |-> Own, subject |-> "staff", effect |-> "allow"]>>}
AnyRows == [list \in Lists |-> RowsFor(list)]
================================================================================
