------------------------------ MODULE MCClaims ------------------------------
(***************************************************************************)
(* A WordPress docroot for Claims, at a few paths per rule.                *)
(***************************************************************************)
EXTENDS Claims

Wp(name) == <<"wp-content", name>>

Runtime    == {Wp("cache"), Wp("upgrade"), <<".maintenance">>}
Containers == {Wp("uploads"), Wp("blogs.dir")}
NotServed  == {<<".git">>, <<".wpcloud-site-git-deploy">>}

\* The platform's sticky directories: none yet, some, or all.
Sticky == SUBSET {<<"wp-content">>, Wp("plugins")}

\* Entries beside, at and below the runtime paths, the containers and the
\* boundaries.
RepositoryPaths ==
  {<<"index.php">>, <<".git", "config">>, <<"wp-content">>, Wp("index.php"),
   Wp("plugins") \o <<"seo", "seo.php">>, Wp("plugins") \o <<"seo", "lib.php">>,
   Wp("cache") \o <<"object">>, Wp("uploads"),
   Wp("uploads") \o <<"logo.png">>, Wp("uploads") \o <<"logo.png", "small">>}

RepositoryLinks == {<<"index.php">>, Wp("uploads") \o <<"logo.png">>}
=============================================================================
