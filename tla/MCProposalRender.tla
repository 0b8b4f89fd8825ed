--------------------------- MODULE MCProposalRender ---------------------------
(* Two toolbars over one proposal: the proposal, its lead and its signer gate    *)
(* the document, which loads the insurance, the address of its scan and the scan. *)
EXTENDS ProposalRender

CONSTANTS t1, t2, proposal, lead, signer, insurance, address, scan

MCToolbar == {t1, t2}
MCQuery == {proposal, lead, signer, insurance, address, scan}
MCOwn == {insurance, address, scan}
MCNeeds == [q \in MCQuery |-> CASE q = lead -> {proposal}
                                [] q = address -> {insurance}
                                [] q = scan -> {address}
                                [] OTHER -> {}]
MCRequired == {proposal, lead}
MCImages == {scan}
=============================================================================
