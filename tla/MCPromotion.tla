---------------------------- MODULE MCPromotion ----------------------------
(***************************************************************************)
(* A small docroot for Promotion: the values of its constants that are not *)
(* numbers or model values.                                                *)
(***************************************************************************)
EXTENDS Promotion, TLC

CONSTANTS site, other,                                            \* deployments
          flat, nested, media, gallery, plugin, escaping, refused \* commits

\* "uploads" is a shared container of WordPress: the claims in it are single
\* files, so "uploads/photo" can turn from a file into a directory.  "plugins"
\* is claimed as a whole.
Plugins == <<"plugins">>
Uploads == <<"uploads">>
Photo   == <<"uploads", "photo">>
Thumb   == <<"uploads", "photo", "thumb">>

SitePaths == {Plugins, Uploads, Photo, Thumb}

\* plugins < uploads < uploads/photo < uploads/photo/thumb in byte order.
SiteRank == [p \in SitePaths |-> IF p = Plugins THEN 0 ELSE Len(p)]

SiteClaims ==
  LET claims == (flat :> {Plugins, Photo}) @@ (nested :> {Plugins, Thumb}) @@
                (media :> {Photo}) @@ (gallery :> {Thumb}) @@ (plugin :> {Plugins}) @@
                (escaping :> {Plugins}) @@ (refused :> {Uploads})
  IN  [c \in Commits |-> claims[c]]

\* A tree holds its claims and their directories; in the tree of the escaping
\* commit "plugins" is a symlink that leaves the docroot.
SiteResolves ==
  [c \in Commits |-> IF c = escaping THEN {}
                     ELSE {p \in SitePaths : \E q \in SiteClaims[c] : AtOrBelow(p, q)}]

\* The site has real directories of its own.
SiteDirs ==
  [p \in SitePaths |-> IF p \in {Plugins, Uploads} THEN "full" ELSE "none"]

\* The directory of a photo is there, with what a deployment has installed in it.
SharedDirs == [SiteDirs EXCEPT ![Photo] = "bare"]

\* The site has a file where a deployment claims a directory.
SiteFiles == [SiteDirs EXCEPT ![Plugins] = "file"]

\* Takeovers at "plugins", ancestors and descendants at "uploads/photo".
OverlappingRepos ==
  [d \in Deployments |-> IF d = site THEN {flat, media} ELSE {nested, flat}]

\* One deployment has "plugins" to itself; both publish at "uploads/photo",
\* and one has a tree that claims the site's "uploads" and is refused.
PartlySharedRepos ==
  [d \in Deployments |-> IF d = site THEN {flat, gallery} ELSE {media, gallery, refused}]

\* One deployment deploys everything; the other one published before it and goes
\* back to that release: takeovers at "plugins", and an ancestor or a descendant of
\* what is there at "uploads/photo", in both directions.
TurnRepos     == [d \in Deployments |-> IF d = site THEN Commits ELSE {}]
TurnInstalled == [d \in Deployments |-> IF d = site THEN NoCommit ELSE nested]

\* Cron deploys one commit over another one.
CronRepo         == [d \in Deployments |-> {nested}]
MediaInstalled   == [d \in Deployments |-> media]
FlatInstalled    == [d \in Deployments |-> flat]
AllCommits       == [d \in Deployments |-> Commits]
NothingInstalled == [d \in Deployments |-> NoCommit]
OwnMarker        == [d \in Deployments |-> {d}]

\* The id of "other" begins with the id of "site", so its marker mentions both.
PrefixMarker == [d \in Deployments |-> {d, site}]
=============================================================================
