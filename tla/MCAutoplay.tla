------------------------------ MODULE MCAutoplay ------------------------------
(* Instances of Autoplay: the sets are model values of the configurations.  *)
EXTENDS Autoplay
===============================================================================
