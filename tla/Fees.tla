-------------------------------- MODULE Fees --------------------------------
(***************************************************************************)
(* What a payment must carry (packages/sdk/src/fassets.ts).  Amounts are in *)
(* drops; fees are what the AssetManager says at the time they are read.     *)
(***************************************************************************)
EXTENDS Naturals

BIPS == 10000

DirectMintingFees == [executorFeeUBA : Nat, feeBIPS : Nat, minimumFeeUBA : Nat]

\* The proportional fee, rounded down, with a floor under it.
MintingFee(uba, fees) ==
    LET proportional == (uba * fees.feeBIPS) \div BIPS
    IN  IF proportional > fees.minimumFeeUBA THEN proportional ELSE fees.minimumFeeUBA

\* Mutant of ComputePaymentAmount: the floor is forgotten.
ComputePaymentProportional(netMintUBA, fees) ==
    netMintUBA + (netMintUBA * fees.feeBIPS) \div BIPS + fees.executorFeeUBA

\* computePaymentAmount's totalUBA: both fees on top of what is to be minted.
ComputePaymentAmount(netMintUBA, fees) ==
    netMintUBA + MintingFee(netMintUBA, fees) + fees.executorFeeUBA

=============================================================================
