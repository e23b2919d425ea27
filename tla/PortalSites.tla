----------------------------- MODULE PortalSites -----------------------------
(***************************************************************************)
(* The site files of the portal (apps/portal/server.mjs).  POST /api/sites *)
(* lists the stored sites, compares their number with the limit and then   *)
(* creates one file; GET /p/<slug> serves a site out of such a listing.    *)
(* Requests interleave at every await, and the process may end between two *)
(* of them.                                                                *)
(*                                                                         *)
(* A file that was created and not written is not a site: listSites skips  *)
(* what does not parse.  Titles and bodies stand for nothing.              *)
(***************************************************************************)
EXTENDS Naturals, FiniteSets

CONSTANTS
  Slugs,
  Requests,   \* POST requests, each with the slug it names
  slugOf,
  SiteLimit   \* 300

ASSUME SitesAssumption ==
  /\ slugOf \in [Requests -> Slugs]
  /\ SiteLimit \in Nat \ {0}
  /\ IsFiniteSet(Slugs) /\ IsFiniteSet(Requests)
  /\ "none" \notin Requests

VARIABLES
  draft,       \* slugs whose file is created but not written
  site,        \* the request that wrote each slug's file, or "none"
  request,     \* where each request stands
  seen,        \* the slugs that readdir gave to a request's listing
  sure,        \* those of them that were sites already then
  acknowledged,\* history: requests answered with 201
  peak         \* history: the most requests between listing and answer at once

siteVars == <<draft, site, request, seen, sure, acknowledged, peak>>

Sites == {s \in Slugs : site[s] # "none"}

Saving(r) == request[r] \in {"listing", "admitted", "writing"}

Savers == {r \in Requests : Saving(r)}

\* The listings that may be made of a set of sites: the loop stops at the
\* limit, in the order of the directory.
listSites(found) ==
  IF Cardinality(found) <= SiteLimit THEN {found}
  ELSE {l \in SUBSET found : Cardinality(l) = SiteLimit}

\* saveSite up to the readdir of its listing.
StartListing(r) ==
  /\ request[r] = "new"
  /\ request' = [request EXCEPT ![r] = "listing"]
  /\ seen' = [seen EXCEPT ![r] = Sites \cup draft]
  /\ sure' = [sure EXCEPT ![r] = Sites]
  /\ peak' = IF peak > Cardinality(Savers) THEN peak ELSE Cardinality(Savers) + 1
  /\ UNCHANGED <<draft, site, acknowledged>>

\* Mutant: a full workspace is not noticed.
AdmitSiteAlways(r) ==
  /\ request[r] = "listing"
  /\ request' = [request EXCEPT ![r] = "admitted"]
  /\ UNCHANGED <<draft, site, seen, sure, acknowledged, peak>>

\* The files are read one by one: a file listed as a draft may have become a
\* site by then.
AdmitSite(r) ==
  /\ request[r] = "listing"
  /\ \E found \in SUBSET (seen[r] \cap Sites) :
       /\ sure[r] \subseteq found
       /\ \E l \in listSites(found) :
            request' = [request EXCEPT
              ![r] = IF Cardinality(l) < SiteLimit THEN "admitted" ELSE "refused"]
  /\ UNCHANGED <<draft, site, seen, sure, acknowledged, peak>>

\* Mutant: the file is opened for writing, whether it exists or not.
OpenSiteAnyway(r) ==
  /\ request[r] = "admitted"
  /\ request' = [request EXCEPT ![r] = "writing"]
  /\ draft' = draft \cup {slugOf[r]}
  /\ site' = [site EXCEPT ![slugOf[r]] = "none"]
  /\ UNCHANGED <<seen, sure, acknowledged, peak>>

\* The file is created exclusively; EEXIST answers 409.
OpenSite(r) ==
  /\ request[r] = "admitted"
  /\ IF slugOf[r] \in Sites \cup draft
     THEN /\ request' = [request EXCEPT ![r] = "refused"]
          /\ UNCHANGED draft
     ELSE /\ request' = [request EXCEPT ![r] = "writing"]
          /\ draft' = draft \cup {slugOf[r]}
  /\ UNCHANGED <<site, seen, sure, acknowledged, peak>>

\* writeFile and sync succeed and 201 is sent.
WriteSite(r) ==
  /\ request[r] = "writing"
  /\ request' = [request EXCEPT ![r] = "created"]
  /\ draft' = draft \ {slugOf[r]}
  /\ site' = [site EXCEPT ![slugOf[r]] = r]
  /\ acknowledged' = acknowledged \cup {r}
  /\ UNCHANGED <<seen, sure, peak>>

\* Mutant: a failed write is answered as if the site were there.
WriteSiteFailsAcknowledged(r) ==
  /\ request[r] = "writing"
  /\ request' = [request EXCEPT ![r] = "created"]
  /\ acknowledged' = acknowledged \cup {r}
  /\ UNCHANGED <<draft, site, seen, sure, peak>>

\* writeFile or sync throws: the draft stays, and so does its name.
WriteSiteFails(r) ==
  /\ request[r] = "writing"
  /\ request' = [request EXCEPT ![r] = "refused"]
  /\ UNCHANGED <<draft, site, seen, sure, acknowledged, peak>>

\* The portal's process ends: requests under way get no answer.
PortalCrash ==
  /\ \E r \in Requests : Saving(r)
  /\ request' = [r \in Requests |-> IF Saving(r) THEN "refused" ELSE request[r]]
  /\ UNCHANGED <<draft, site, seen, sure, acknowledged, peak>>

SitesInit ==
  /\ draft = {}
  /\ site = [s \in Slugs |-> "none"]
  /\ request = [r \in Requests |-> "new"]
  /\ seen = [r \in Requests |-> {}]
  /\ sure = [r \in Requests |-> {}]
  /\ acknowledged = {}
  /\ peak = 0

SitesNext ==
  \/ \E r \in Requests : \/ StartListing(r) \/ AdmitSite(r) \/ OpenSite(r)
                         \/ WriteSite(r) \/ WriteSiteFails(r)
  \/ PortalCrash

SitesSpec == SitesInit /\ [][SitesNext]_siteVars

-----------------------------------------------------------------------------
(* Properties.                                                             *)

\* Every site that was acknowledged is served, out of every listing, after
\* any failures and restarts, unless requests were processed side by side:
\* then the limit may be passed and the listing stops before some site.
AcknowledgedServed ==
  \A r \in acknowledged :
    /\ site[slugOf[r]] = r
    /\ peak <= 1 => \A l \in listSites(Sites) : slugOf[r] \in l

\* The limit is passed only by requests processed side by side, and by at
\* most one site for each rival of one request: a request that lists after
\* the limit was reached is refused.
OverfullNeedsRivals == Cardinality(Sites) < SiteLimit + peak

\* Only requests side by side pass the limit and hide a site that was
\* acknowledged.
SitesSound == AcknowledgedServed /\ OverfullNeedsRivals

\* What a site file says never changes once it is complete.
SitesImmutable == \A s \in Sites : site'[s] = site[s]
=============================================================================
