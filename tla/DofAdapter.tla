------------------------------- MODULE DofAdapter -------------------------------
(***************************************************************************)
(* Joint tables and how the values of one are fitted onto the joints of    *)
(* another: robojudo.tools.  A table names its joints in an order of its   *)
(* own and has, for some of the properties of a joint, one value per       *)
(* joint in that order.                                                    *)
(***************************************************************************)
EXTENDS Naturals, Sequences

\* Every name of a table occurs once in it.
Distinct(names) ==
  \A n, m \in DOMAIN names : names[n] = names[m] => n = m

Names(names) == {names[n] : n \in DOMAIN names}

\* tar_joint_names.index(name)
Index(name, names) == CHOOSE n \in DOMAIN names : names[n] = name

\* Mutant: the values are taken in the order they come.
FitInOrder(src, tar, data, template) ==
  [p \in DOMAIN tar |-> IF p \in DOMAIN data THEN data[p] ELSE template[p]]

\* DoFAdapter(src, tar).fit: each joint of tar that src has takes its value from
\* data, the others keep the template's.
Fit(src, tar, data, template) ==
  [p \in DOMAIN tar |->
     IF tar[p] \in Names(src) THEN data[Index(tar[p], src)] ELSE template[p]]

\* The joints two tables share: without one, the adapter is not built.
Fits(src, tar) == Names(src) \cap Names(tar) # {}

\* Values in the order of names that are each of the joint at their place.
OfJoints(names, values) ==
  \A p \in DOMAIN names : values[p][2] = names[p]

-----------------------------------------------------------------------------
\* DoFConfig: the properties that are given have one value per joint.
IsTable(table) ==
  \A k \in DOMAIN table.prop :
    DOMAIN table.prop[k] = DOMAIN table.joint_names

\* A table whose values are written for its joints.
Sound(table) ==
  /\ Distinct(table.joint_names)
  /\ IsTable(table)
  /\ \A k \in DOMAIN table.prop : OfJoints(table.joint_names, table.prop[k])

\* A subset of a table's joints, in an order of its own.
Pick(table, names) ==
  [joint_names |-> names,
   prop |-> [k \in DOMAIN table.prop |->
               [p \in DOMAIN names |->
                  table.prop[k][Index(names[p], table.joint_names)]]]]

\* merge_dof_cfgs: the properties the override gives replace the base's at the
\* joints it names; a property it does not give stays the base's.
MergeDof(base, override) ==
  [joint_names |-> base.joint_names,
   prop |-> [k \in DOMAIN base.prop |->
     IF k \in DOMAIN override.prop
     THEN Fit(override.joint_names, base.joint_names,
              override.prop[k], base.prop[k])
     ELSE base.prop[k]]]
=============================================================================
