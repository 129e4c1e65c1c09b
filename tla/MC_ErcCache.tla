---------------------------- MODULE MC_ErcCache ----------------------------
EXTENDS ErcCache

CONSTANTS t1, t2, t3, t4, a, b, z

MC_Tokens == {t1, t2}
MC_Holders == {a, b}

(* t2 and t3 are NFTs (contract:id); t3 never moves.  t4 is an ERC-20    *)
(* contract whose name, symbol or decimals do not parse at first.          *)
MC_TokensNft == {t1, t2, t3, t4}
MC_Nfts == {t2, t3}
MC_Malformed == {t4}

MC_UriShapes == {"string", "unknown", "undecodable"}
MC_NoUri == [t \in {} |-> "string"]
(* t2 answers token_uri with neither a ByteArray nor felts (empty URI),   *)
(* t3 with a URI that decodes; either may change once.                     *)
MC_UriSequential == (t2 :> "unknown") @@ (t3 :> "string")

(* A tick holding a task that may fail holds no other task that marks a  *)
(* token or moves a balance: mint t1 to a; a and b swap t1 concurrently;  *)
(* mint the NFT t2 to b next to a metadata update of t3, not yet          *)
(* registered; mint t3 to a; metadata updates of t2 and t3 compete for    *)
(* the one permit; mint t4, which fails until its contract is upgraded.   *)
MC_TicksSequential ==
  << << [kind |-> "transfer", token |-> t1, from |-> z, to |-> a, amount |-> 2] >>,
     << [kind |-> "transfer", token |-> t1, from |-> a, to |-> b, amount |-> 1],
        [kind |-> "transfer", token |-> t1, from |-> b, to |-> a, amount |-> 1] >>,
     << [kind |-> "transfer", token |-> t2, from |-> z, to |-> b, amount |-> 1],
        [kind |-> "update", token |-> t3] >>,
     << [kind |-> "transfer", token |-> t3, from |-> z, to |-> a, amount |-> 1] >>,
     << [kind |-> "update", token |-> t2],
        [kind |-> "update", token |-> t3] >>,
     << [kind |-> "transfer", token |-> t4, from |-> z, to |-> b, amount |-> 1] >> >>

(* Two transfers of the unseen token t1 in one tick (spec S5), and a      *)
(* transfer of t2.                                                         *)
MC_TicksSameToken ==
  << << [kind |-> "transfer", token |-> t1, from |-> z, to |-> a, amount |-> 1],
        [kind |-> "transfer", token |-> t1, from |-> z, to |-> b, amount |-> 1],
        [kind |-> "transfer", token |-> t2, from |-> z, to |-> a, amount |-> 1] >> >>

(* Two new tokens in one tick; one registration may fail.                 *)
MC_TicksTwoTokens ==
  << << [kind |-> "transfer", token |-> t1, from |-> z, to |-> a, amount |-> 1],
        [kind |-> "transfer", token |-> t2, from |-> z, to |-> b, amount |-> 1] >> >>

(* An NFT whose token URI is felts that are not short strings, minted     *)
(* before an ERC-20 mint.                                                  *)
MC_NftBad == {t2}
MC_UriBad == t2 :> "undecodable"
MC_TicksBadUri ==
  << << [kind |-> "transfer", token |-> t2, from |-> z, to |-> a, amount |-> 1] >>,
     << [kind |-> "transfer", token |-> t1, from |-> z, to |-> b, amount |-> 1] >> >>
=============================================================================
