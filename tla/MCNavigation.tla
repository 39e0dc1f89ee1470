---------------------------- MODULE MCNavigation ----------------------------
(* Finite instances of Navigation.                                         *)
EXTENDS Navigation, TLC

CONSTANTS schedule, faq, form, codelabs, day1, day2, cost, quote

\* One page with subpages, one with anchors, and one without a template.
Sections == schedule :> {day1, day2} @@ faq :> {} @@ form :> {}
Defaults == schedule :> day1 @@ faq :> None @@ form :> None
=============================================================================
