----------------------------- MODULE PnsResolvers -----------------------------
(***************************************************************************)
(* The resolver pallet: the records and texts an owner attaches to a name, *)
(* and the chain-managed SS58 record that says which account a node        *)
(* resolves to.                                                            *)
(***************************************************************************)
EXTENDS PnsStorage

\* Mutant of Ss58After: the record is not repointed.
Ss58NotUpdated(wiped, node, a) ==
  [m \in Nodes |-> IF m \in wiped THEN NULL ELSE ss58[m]]

\* update_ss58 on `node`, after clear_all_records on the nodes in `wiped`.
Ss58After(wiped, node, a) ==
  [m \in Nodes |-> IF m = node THEN a ELSE IF m \in wiped THEN NULL ELSE ss58[m]]

\* Mutants of Ss58Without and DnsWithout: nothing is cleared.
Ss58Kept(wiped) == ss58
DnsKept(wiped) == dns

\* clear_all_records on the nodes in `wiped`.
Ss58Without(wiped) == [m \in Nodes |-> IF m \in wiped THEN NULL ELSE ss58[m]]
DnsWithout(wiped) == [n \in Names |-> IF n \in wiped THEN NULL ELSE dns[n]]
TextsWithout(wiped) == [n \in Names |-> IF n \in wiped THEN NULL ELSE texts[n]]

\* check_node_useable: the caller owns the token and, if there is a lease, it
\* has not expired.  A subname has no token, so the check fails for it.
CheckNodeUseable(a, n) == owner[n] = a /\ (expire[n] # NULL => Useable(n))

SetRecord(a, n) ==
  /\ CheckNodeUseable(a, n)
  /\ dns' = [dns EXCEPT ![n] = a]
  /\ UNCHANGED <<now, leaseVars, subVars, adminVars, primary, offeredNames,
                 listings, ss58, texts>>

SetText(a, n) ==
  /\ CheckNodeUseable(a, n)
  /\ texts' = [texts EXCEPT ![n] = a]
  /\ UNCHANGED <<now, leaseVars, subVars, adminVars, primary, offeredNames,
                 listings, ss58, dns>>

=============================================================================
