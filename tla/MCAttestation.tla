--------------------------- MODULE MCAttestation ---------------------------
(***************************************************************************)
(* Policies of payments of 2 from the seller to the shop, each with a      *)
(* transaction that meets it, and with every one that differs from that in *)
(* one place or is followed by another transfer.                           *)
(***************************************************************************)
EXTENDS Attestation, TLC

MCSourceKey == 1

Native ==
  [sourceChainKey |-> 1, assetKind |-> "native", expectedSourceContract |-> ZeroAddress,
   expectedRecipient |-> "shop", expectedAsset |-> ZeroAddress, expectedSender |-> "seller",
   amountRule |-> "exact", amount |-> 2, minSourceBlock |-> 1, maxSourceBlock |-> 1,
   calldataSelector |-> "none", requireTransferEvent |-> FALSE]

Erc20 ==
  [Native EXCEPT !.assetKind = "erc20", !.expectedSourceContract = "token",
                 !.expectedAsset = "token", !.amountRule = "minimum", !.maxSourceBlock = 0,
                 !.calldataSelector = "transfer", !.requireTransferEvent = TRUE]

Transfer(recipient, amount) ==
  [event |-> "Transfer", wellFormed |-> TRUE, address |-> "token", sender |-> "seller",
   recipient |-> recipient, amount |-> amount]

Payment ==
  [sourceChainKey |-> 0, sourceBlockNumber |-> 0, receiptStatus |-> 0, from |-> "seller",
   to |-> "shop", value |-> 2, data |-> [selector |-> "none", decodes |-> FALSE], logs |-> <<>>]

Paid == Transfer("shop", 2)

TokenPayment ==
  [Payment EXCEPT !.to = "token", !.value = 0, !.logs = <<Paid>>,
     !.data = [selector |-> "transfer", decodes |-> TRUE, recipient |-> "shop", amount |-> 2]]

NativePayments ==
  {Payment, [Payment EXCEPT !.from = "thief"], [Payment EXCEPT !.to = "thief"],
   [Payment EXCEPT !.value = 1], [Payment EXCEPT !.value = 3]}

TokenLogs ==
  {<<>>, <<Transfer("shop", 1)>>, <<Transfer("shop", 3)>>, <<Transfer("thief", 2)>>,
   <<[Paid EXCEPT !.sender = "thief"]>>, <<[Paid EXCEPT !.address = "other"]>>,
   <<[Paid EXCEPT !.event = "Approval"]>>, <<[Paid EXCEPT !.wellFormed = FALSE]>>,
   <<Transfer("thief", 1), Paid>>, <<Transfer("shop", 1), Paid>>}

TokenPayments ==
  {TokenPayment, [TokenPayment EXCEPT !.value = 2], [TokenPayment EXCEPT !.to = "other"],
   [TokenPayment EXCEPT !.data.amount = 1], [TokenPayment EXCEPT !.data.recipient = "thief"],
   [TokenPayment EXCEPT !.data = Payment.data]}
  \cup {[TokenPayment EXCEPT !.logs = logs] : logs \in TokenLogs}

MCCases ==
  {[policy |-> p, tx |-> tx, transactionType |-> 2] : p \in
     {Native, [Native EXCEPT !.amountRule = "minimum", !.minSourceBlock = 2, !.maxSourceBlock = 0]},
     tx \in NativePayments}
  \cup {[policy |-> p, tx |-> tx, transactionType |-> 0] : p \in
     {Erc20, [Erc20 EXCEPT !.calldataSelector = "none", !.amountRule = "exact"]},
     tx \in TokenPayments}
  \cup {[policy |-> Native, tx |-> Payment, transactionType |-> 3],
        [policy |-> [Native EXCEPT !.sourceChainKey = 2], tx |-> Payment, transactionType |-> 2]}
=============================================================================
