-------------------------------- MODULE PortZero --------------------------------
(***************************************************************************)
(* What Port Zero keeps, side by side: the name directory with the         *)
(* operator's tool, the portal's sites, and the dispatch, hash chains and  *)
(* routes of the Python network.  They share no variable: each step of the *)
(* one leaves the others alone or is a step of several.                    *)
(***************************************************************************)
EXTENDS OwnerNamespace, PortalSites, PortZeroDispatch, EventChains, RouteExecution

PortZeroSpec == NamespaceSpec /\ SitesSpec /\ DispatchSpec /\ ChainsSpec /\ RoutesSpec

\* Types of the directories, the operator's files and the database.
TypesOK == TypeOK /\ NamespaceTypeOK /\ DispatchTypeOK

\* A manifest and a site that were stored whole are never damaged, whatever
\* fails or runs at the same time.
StoredFilesStay == [][ManifestStaysWhole /\ SitesImmutable]_<<namespaceVars, siteVars>>
=============================================================================
