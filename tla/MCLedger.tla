------------------------------ MODULE MCLedger ------------------------------
(* Instances of Ledger for TLC: which requests and clients each process has. *)
EXTENDS Ledger, TLC

CONSTANTS p1, p2, r1, r2, c1, c2, a1, a2, t1, t2, t3, m1, m2

\* One process serves every request with every client.
OneProcess == [x \in Requests \cup Clients |-> p1]
\* Two processes, each with one request and one client.
TwoProcesses == [x \in Requests \cup Clients |-> IF x \in {r1, c1} THEN p1 ELSE p2]

\* Bodies of PUT /transactions/:id: another account, another amount, or both.
MoveEdits == {e \in [acct: Accounts \cup {Keep}, amt: Amounts \cup {Keep}, links: {Keep}] :
                 e.acct # Keep \/ e.amt # Keep}
\* Bodies that replace the list of links.
LinkEdits == [acct: {Keep}, amt: {Keep}, links: SUBSET Txns]
NoEdits == {}

\* The ids are interchangeable; so are the requests and clients of one process.
SymmetricTxns == Permutations(Txns)
SymmetricSlots == Permutations(Txns) \cup Permutations(Requests) \cup Permutations(Clients)
=============================================================================
