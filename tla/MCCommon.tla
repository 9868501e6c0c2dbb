------------------------------ MODULE MCCommon ------------------------------
(***************************************************************************)
(* Three parts of the common library that share no state with each other,  *)
(* for MCServices to run beside the services.                              *)
(***************************************************************************)
EXTENDS TypeormTransactions, Paging, FileTransfer

(* Transactions: two at a time over two connections, and one that comes after them. *)
MCExecution == 1..3
MCConnection == 4..5

MCTxNext ==
    /\ TxNext
    /\ txStep'[2] # "none" => txStep'[1] # "none"
    /\ txStep'[3] # "none" => {txStep[1], txStep[2]} \subseteq {"done", "failed"}

(* Paging: three sort orders, of which the last two have ties, one each way; fields are a
   name, and one condition excludes one of the names. *)
MCDocument == 1..4
MCFields == 1..3
MCEntry == MCDocument \X MCFields
MCFirstEntries == {<<1, 2>>, <<2, 1>>, <<3, 3>>}
MCCreatedAt == [d \in MCDocument |-> d]
MCOrder == {"createdAt", "name", "nameDesc"}
MCKeyOf == [name |-> [e \in MCEntry |-> e[2]], nameDesc |-> [e \in MCEntry |-> -e[2]]]
MCFilter == {MCEntry, {e \in MCEntry : e[2] # 2}}
MCTakes == {0, 1, 3}
MCMaxAltered == 4

MCPagingNext ==
    /\ PagingNext
    /\ Cardinality(came') + Cardinality(went') <= MCMaxAltered
    /\ pageStep' # "none"

----------------------------------------------------------------------------

libraryVars == <<txVars, pagingVars, transferVars>>

LibraryInit == TxInit /\ PagingInit /\ TransferInit

LibraryNext(running) ==
    \/ running = "typeorm" /\ MCTxNext /\ UNCHANGED <<pagingVars, transferVars>>
    \/ running = "paging" /\ MCPagingNext /\ UNCHANGED <<txVars, transferVars>>
    \/ running = "transfer" /\ TransferNext /\ UNCHANGED <<txVars, pagingVars>>
=============================================================================
